---- MODULE Spec2Model ----
(***************************************************************************)
(* CoordinatorTaskDistributor (coordinator-tast-distributor.ts): the       *)
(* pending queue, the TaskStatus map, the worker registry, the             *)
(* coordinator-wide promiseTrain that serialises requestTask handling, and *)
(* the result sink.                                                        *)
(*                                                                         *)
(* One action per socket event handler or enqueue entry point.  A          *)
(* requestTask handler is chained on promiseTrain; its callback runs in a  *)
(* later microtask and may suspend once, at `await this.taskGenerator()`.  *)
(* Microtasks run before the next socket event is delivered, so socket     *)
(* events and enqueues are only taken when no chained callback is ready    *)
(* to run (Quiescent).                                                     *)
(***************************************************************************)
EXTENDS Integers, Sequences, FiniteSets, TLC

(* ------------------------------ bounds -------------------------------- *)
\* longest pending queue explored
MaxQueue == 2
\* most requestTask callbacks chained on promiseTrain at one time
MaxTrain == 1
\* longest list one taskGenerator call returns
MaxGen == 1
\* most callbacks chained on the worker's promiseTrain at one time
MaxChained == 2
\* most requestTask emissions of a worker not yet answered
MaxUnanswered == 2
\* most noTask backoff timers of a worker pending at one time
MaxTimers == 1
\* largest batchSize option of a basic TaskDistributor explored
MaxBatch == 2
\* longest list one getTasks call returns
MaxLoad == 3
\* most queue entries getTasks and addTask supply in one run
MaxSupplied == 4

(* ------------------------------ universe ------------------------------ *)
\* socket.id values; socket.io never reuses an id
Sockets == {"w1", "w2"}
\* taskId values an installationStatus may carry; the enhanced worker sends
\* 'N/A' for a task without taskId
ReportIds == {"t1", "t2", "N/A"}
\* taskId values a taskCompleted may carry
CompletedIds == {"t1"}
Results == {"ok"}
\* this.taskTypes of the worker process behind each socket
TaskTypesOf(s) == IF s = "w1" THEN <<"x">> ELSE <<"x", "y">>
\* taskTypes payloads of registerCapabilities / notifyReady from socket s
CapLists(s) == {<<>>, TaskTypesOf(s)}

\* the tasks producers and the generator supply: one that both workers can
\* run and one that only w2 can
DynamicTask == {[taskId |-> "t1", taskType |-> "x"],
                [taskId |-> "t2", taskType |-> "y"]}
\* a task record that is in no queue: placeholder of noTask emissions
NoTask == [taskId |-> "", taskType |-> ""]

VARIABLES
    tasks,              \* TaskDistributor.tasks: the pending queue
    taskStatuses,       \* Map<string, TaskStatus>, entries in insertion order
    taskStatusHandled,  \* Map<string, boolean>: the keys set to true
    workers,            \* Map<string, WorkerInfo>
    conn,               \* per socket: "new", "connected" or "gone"
    taskGenerator,      \* options.taskGenerator is configured
    train,              \* requestTask callbacks chained on promiseTrain, not yet run
    suspended,          \* the callback awaiting taskGenerator(), with its captured worker
    rejected,           \* promiseTrain is a rejected promise
    emitted,            \* output of the last step: the assignTask / noTask emission
                        \* it made (at most one), with whether its callback
                        \* awaited taskGenerator()
    onResultArgs,       \* output of the last step: the list it passed to onResult
                        \* (at most one invocation)
    unhandled           \* output of the last step: the sockets whose requestTask
                        \* handler ended in a promise rejection

coordVars == <<tasks, taskStatuses, taskStatusHandled, workers, conn, taskGenerator,
               train, suspended, rejected, emitted, onResultArgs, unhandled>>

\* one EnhancedWorkerClient process
VARIABLES
    started,            \* start(): "connecting" until connectToMaster settles, then
                        \* "started", or "exited" after process.exit(1)
    link,               \* the socket.io transport: "down" or "up"
    chained,            \* callbacks chained on the worker's promiseTrain, not yet run
    inFlight,           \* assignTask callbacks begun and not ended, each awaiting
                        \* setupDynamicTask ("setup") or executeDynamicTask ("execute")
    unanswered,         \* requestTask emissions the coordinator has not answered
    timers,             \* pending setTimeout(..., 10000) of the noTask handler
    sent                \* output of the last step: what it emitted, in order

workerVars == <<started, link, chained, inFlight, unanswered, timers, sent>>

\* one basic TaskDistributor (task-distributor.ts) and its WorkerClient
\* processes (worker-client.ts)
VARIABLES
    distTasks,          \* TaskDistributor.tasks of the basic distributor
    batchSize,          \* options.batchSize ?? 5
    supplied,           \* queue entries getTasks and addTask have supplied so far;
                        \* an entry is named by its number
    getTasksCalled,     \* output of the last step: it called getTasks
    handledResults,     \* output of the last step: the lists it passed to handleResults
    phase,              \* per WorkerClient: "connecting", "waiting" for a reply,
                        \* "processing" a batch, "exited" (process.exit(0)),
                        \* "failed" (process.exit(1)) or "rejected" (processTasks
                        \* rejected: the handler's promise is rejected, nothing
                        \* is emitted any more)
    inbox,              \* per WorkerClient: events emitted to it, not yet received
    outbox,             \* per WorkerClient: events it emitted, not yet received
    processing          \* per WorkerClient: the batches passed to processTasks
                        \* and not yet settled

basicVars == <<distTasks, batchSize, supplied, getTasksCalled, handledResults,
               phase, inbox, outbox, processing>>

\* start() and discoverMaster() of each worker process (the same code in
\* enhanced-worker-client.ts and worker-client.ts)
VARIABLES
    masterUrl,          \* per client: options.masterUrl
    url,                \* per client: the address start() passes to connectToMaster
                        \* (this.currentMasterUrl of the enhanced worker)
    found,              \* per client: `let found` of discoverMaster
    browser,            \* per client: the Bonjour browser: "none", "browsing" or
                        \* "stopped"
    discoveryTimer,     \* per client: setTimeout(..., discoveryTimeoutMs) is pending
    ups                 \* per client: the services of the 'up' events delivered

startVars == <<masterUrl, url, found, browser, discoveryTimer, ups>>

\* setupDynamicTask (setupDynamicTask.ts) and the file system it works on
VARIABLES
    disk,               \* per project directory: its files, path to content
    setupCall,          \* the setupDynamicTask call that awaits `npm install` or
                        \* `npm run build`, with its currentHash
    execs,              \* output of the last step: the commands it started
    settled,            \* output of the last step: "resolved" or "rejected" if a
                        \* setupDynamicTask call settled in it, else "none"
    lastSetup           \* per project directory: the file set of the last settled
                        \* call and how it ended

setupVars == <<disk, setupCall, execs, settled, lastSetup>>

vars == <<tasks, taskStatuses, taskStatusHandled, workers, conn, taskGenerator,
          train, suspended, rejected, emitted, onResultArgs, unhandled,
          started, link, chained, inFlight, unanswered, timers, sent,
          distTasks, batchSize, supplied, getTasksCalled, handledResults,
          phase, inbox, outbox, processing,
          masterUrl, url, found, browser, discoveryTimer, ups,
          disk, setupCall, execs, settled, lastSetup>>

(* --------------------------- Map<string, V> --------------------------- *)
\* a Map is the sequence of its entries [key, val] in insertion order
MapHas(m, k) == \E i \in DOMAIN m : m[i].key = k
MapGet(m, k) == m[CHOOSE i \in DOMAIN m : m[i].key = k].val
MapSet(m, k, v) ==
    IF MapHas(m, k)
    THEN [i \in DOMAIN m |-> IF m[i].key = k THEN [key |-> k, val |-> v] ELSE m[i]]
    ELSE Append(m, [key |-> k, val |-> v])
MapKeys(m) == {m[i].key : i \in DOMAIN m}

\* Array.prototype.includes
Includes(arr, v) == \E i \in DOMAIN arr : arr[i] = v

\* dynamicTask.taskId || ''
KeyOf(task) == task.taskId

\* this.taskStatuses.get(k)?.status
StatusOf(st, k) == IF MapHas(st, k) THEN MapGet(st, k).status ELSE "undefined"
AssigneeOf(st, k) == IF MapHas(st, k) THEN MapGet(st, k).assignedTo ELSE "undefined"

PendingStatus(task) == [task |-> task, assignedTo |-> "", status |-> "pending"]

\* gooseTasks that pushes the new tasks without tracking them
RegisterNothing(st, new) == st

\* the loop of gooseTasks: one taskStatuses.set per new task
RECURSIVE RegisterPending(_, _)
RegisterPending(st, new) ==
    IF new = <<>> THEN st
    ELSE RegisterPending(MapSet(st, KeyOf(Head(new)), PendingStatus(Head(new))), Tail(new))

(* ------------------------------- Init --------------------------------- *)
\* WorkerClient processes that connect to the basic distributor
BasicWorkers == {"b1", "b2"}

\* a basic TaskDistributor constructed with batchSize b, its workers not yet
\* connected
BasicConstructed(b) ==
    /\ distTasks = <<>>
    /\ batchSize = b
    /\ supplied = 0
    /\ getTasksCalled = FALSE
    /\ handledResults = <<>>
    /\ phase = [w \in BasicWorkers |-> "connecting"]
    /\ inbox = [w \in BasicWorkers |-> <<>>]
    /\ outbox = [w \in BasicWorkers |-> <<>>]
    /\ processing = [w \in BasicWorkers |-> <<>>]

\* the worker processes: one EnhancedWorkerClient and the WorkerClients
Clients == {"enhanced"} \cup BasicWorkers
\* an optional string: undefined, or the pieces it is put together from
\* ('' has none)
Undefined == [defined |-> FALSE, parts |-> <<>>]
Str(parts) == [defined |-> TRUE, parts |-> parts]
\* the address of the coordinator
MasterAddress == Str(<<"http://", "master", ":", "3000">>)

\* worker processes given options.masterUrl = m, whose start() has passed it
\* on to connectToMaster: no discovery was run
Located(m) ==
    /\ masterUrl = [c \in Clients |-> m]
    /\ url = [c \in Clients |-> m]
    /\ found = [c \in Clients |-> FALSE]
    /\ browser = [c \in Clients |-> "none"]
    /\ discoveryTimer = [c \in Clients |-> FALSE]
    /\ ups = [c \in Clients |-> <<>>]

\* workingDirectory values of the tasks set up: '' (none) or a directory
WorkingDirectories == {<<>>, <<"/w">>}
\* the project directories those tasks are set up in
ProjectDirs == {<<"/w">>, <<"__dirname", "tasks", "default-task">>}

\* empty project directories, no setupDynamicTask call made yet
NothingSetUp ==
    /\ disk = [d \in ProjectDirs |-> <<>>]
    /\ setupCall = <<>>
    /\ execs = <<>>
    /\ settled = "none"
    /\ lastSetup = [d \in ProjectDirs |-> <<>>]

Init ==
    /\ tasks = <<>>
    /\ taskStatuses = <<>>
    /\ taskStatusHandled = {}
    /\ workers = <<>>
    /\ conn = [s \in Sockets |-> "new"]
    /\ taskGenerator \in BOOLEAN
    /\ train = <<>>
    /\ suspended = <<>>
    /\ rejected = FALSE
    /\ emitted = <<>>
    /\ onResultArgs = <<>>
    /\ unhandled = {}
    /\ started = "connecting"
    /\ link = "down"
    /\ chained = <<>>
    /\ inFlight = <<>>
    /\ unanswered = 0
    /\ timers = 0
    /\ sent = <<>>
    /\ BasicConstructed(5)
    /\ Located(MasterAddress)
    /\ NothingSetUp

\* no chained requestTask callback is ready to run
Quiescent == train = <<>> \/ suspended # <<>>

\* a step that emits nothing, calls no onResult, rejects no handler
NoEmit == emitted' = <<>>
NoResult == onResultArgs' = <<>> /\ UNCHANGED taskStatusHandled
NoRejection == unhandled' = {}

(* ------------------------------ enqueue ------------------------------- *)
\* appendTask / POST /addTask: addTask(dynamicTask), then taskStatuses.set
Enqueue(task) ==
    /\ Quiescent
    /\ Len(tasks) < MaxQueue
    /\ tasks' = Append(tasks, task)
    /\ taskStatuses' = MapSet(taskStatuses, KeyOf(task), PendingStatus(task))
    /\ UNCHANGED <<workers, conn, taskGenerator, workerVars, basicVars, startVars, setupVars, train, suspended, rejected>>
    /\ NoEmit /\ NoResult /\ NoRejection

(* --------------------------- worker registry -------------------------- *)
WorkersSet(w, s, info) == [k \in DOMAIN w \cup {s} |-> IF k = s THEN info ELSE w[k]]
WorkersDelete(w, s) == [k \in DOMAIN w \ {s} |-> w[k]]

\* the callback suspended in gooseTasks holds the WorkerInfo object of its
\* socket: a handler that mutates that object is seen by the callback
Alias(susp, s, info) ==
    [i \in DOMAIN susp |-> IF susp[i].socket = s
                           THEN [socket |-> s, worker |-> info] ELSE susp[i]]

\* this.onConnected = (socket) => { this.workers.set(socket.id, {...}) ... }
Connection(s) ==
    /\ Quiescent
    /\ conn[s] = "new"
    /\ conn' = [conn EXCEPT ![s] = "connected"]
    /\ workers' = WorkersSet(workers, s, [socketId |-> s, taskTypes |-> <<>>, isReady |-> FALSE])
    /\ UNCHANGED <<tasks, taskStatuses, taskGenerator, workerVars, basicVars, startVars, setupVars, train, suspended, rejected>>
    /\ NoEmit /\ NoResult /\ NoRejection

\* the registry after the registerCapabilities handler of socket s:
\* const worker = this.workers.get(socket.id);
\* if (worker) { worker.taskTypes = data.taskTypes; this.workers.set(socket.id, worker) }
Registered(w, s, taskTypes) ==
    IF s \in DOMAIN w
    THEN WorkersSet(w, s, [w[s] EXCEPT !.taskTypes = taskTypes])
    ELSE w

\* socket.on('registerCapabilities')
RegisterCapabilities(s, taskTypes) ==
    /\ Quiescent
    /\ conn[s] = "connected"
    /\ workers' = Registered(workers, s, taskTypes)
    /\ suspended' = IF s \in DOMAIN workers THEN Alias(suspended, s, workers'[s])
                    ELSE suspended
    /\ UNCHANGED <<tasks, taskStatuses, conn, taskGenerator, workerVars, basicVars, startVars, setupVars, train, rejected>>
    /\ NoEmit /\ NoResult /\ NoRejection

\* a forEach that pushes every reported type
PushAll(arr, taskTypes) == arr \o taskTypes

\* data.taskTypes.forEach(t => { if (!worker.taskTypes.includes(t)) worker.taskTypes.push(t) })
RECURSIVE PushMissing(_, _)
PushMissing(arr, taskTypes) ==
    IF taskTypes = <<>> THEN arr
    ELSE PushMissing(IF Includes(arr, Head(taskTypes)) THEN arr
                     ELSE Append(arr, Head(taskTypes)),
                     Tail(taskTypes))

\* the registry after the notifyReady handler of socket s
Readied(w, s, taskTypes) ==
    IF s \in DOMAIN w
    THEN WorkersSet(w, s, [w[s] EXCEPT !.taskTypes = PushMissing(@, taskTypes),
                                      !.isReady = TRUE])
    ELSE w

\* socket.on('notifyReady')
NotifyReady(s, taskTypes) ==
    /\ Quiescent
    /\ conn[s] = "connected"
    /\ workers' = Readied(workers, s, taskTypes)
    /\ suspended' = IF s \in DOMAIN workers THEN Alias(suspended, s, workers'[s])
                    ELSE suspended
    /\ UNCHANGED <<tasks, taskStatuses, conn, taskGenerator, workerVars, basicVars, startVars, setupVars, train, rejected>>
    /\ NoEmit /\ NoResult /\ NoRejection

(* ---------------------------- requestTask ----------------------------- *)
\* a coordinator that stays silent when it has nothing to hand out
EmitAssignOnly(s, ev, task, goosed) ==
    emitted' = IF ev = "noTask" THEN <<>>
               ELSE <<[to |-> s, ev |-> ev, task |-> task, goosed |-> goosed]>>
Emit(s, ev, task, goosed) ==
    emitted' = <<[to |-> s, ev |-> ev, task |-> task, goosed |-> goosed]>>

\* Suitable without the capability test
SuitableAnyType(task, worker, st) == StatusOf(st, KeyOf(task)) = "pending"

\* task => worker.taskTypes.includes(task.taskType)
\*         && this.taskStatuses.get(task.taskId || '')?.status === 'pending'
Suitable(task, worker, st) ==
    /\ Includes(worker.taskTypes, task.taskType)
    /\ StatusOf(st, KeyOf(task)) = "pending"

\* FindIndex scanning from the tail of the queue
FindLastIndex(q, worker, st) ==
    IF \E i \in DOMAIN q : Suitable(q[i], worker, st)
    THEN CHOOSE i \in DOMAIN q :
            /\ Suitable(q[i], worker, st)
            /\ \A j \in (i + 1)..Len(q) : ~Suitable(q[j], worker, st)
    ELSE 0

\* this.tasks.findIndex(...); 0 stands for -1 (sequences start at 1)
FindIndex(q, worker, st) ==
    IF \E i \in DOMAIN q : Suitable(q[i], worker, st)
    THEN CHOOSE i \in DOMAIN q :
            /\ Suitable(q[i], worker, st)
            /\ \A j \in 1..(i - 1) : ~Suitable(q[j], worker, st)
    ELSE 0

\* this.tasks.splice(i, 1): the queue that remains
Splice(q, i) == [j \in 1..(Len(q) - 1) |-> IF j < i THEN q[j] ELSE q[j + 1]]

\* a dispatch that leaves the status as it was enqueued
LeftPending(task, s) == [task |-> task, assignedTo |-> "", status |-> "pending"]

\* status written at dispatch
InstalledStatus(task, s) == [task |-> task, assignedTo |-> s, status |-> "installed"]

\* !worker || !worker.isReady || worker.taskTypes.length === 0
NotEligible(s) ==
    \/ s \notin DOMAIN workers
    \/ ~workers[s].isReady
    \/ Len(workers[s].taskTypes) = 0

\* the rest of the requestTask callback, from findIndex on, run on queue q
\* and status map st for socket s with its captured WorkerInfo; goosed tells
\* whether taskGenerator() was awaited before
Decide(s, worker, q, st, goosed) ==
    LET suitableTaskIndex == FindIndex(q, worker, st)
    IN  IF suitableTaskIndex = 0
        THEN /\ Emit(s, "noTask", NoTask, goosed)
             /\ tasks' = q
             /\ taskStatuses' = st
        ELSE LET task == q[suitableTaskIndex]
             IN  /\ tasks' = Splice(q, suitableTaskIndex)
                 /\ Emit(s, "assignTask", task, goosed)
                 /\ taskStatuses' = MapSet(st, KeyOf(task), InstalledStatus(task, s))

\* socket.on('requestTask'): chain the callback on promiseTrain.  A callback
\* chained on a rejected promise is never run, and the handler's
\* `await this.promiseTrain` rejects.
RequestTask(s) ==
    /\ Quiescent
    /\ conn[s] = "connected"
    /\ Len(train) < MaxTrain
    /\ IF rejected
       THEN UNCHANGED train /\ unhandled' = {s}
       ELSE train' = Append(train, s) /\ NoRejection
    /\ UNCHANGED <<tasks, taskStatuses, workers, conn, taskGenerator, workerVars, basicVars, startVars, setupVars, suspended,
                   rejected>>
    /\ NoEmit /\ NoResult

\* a refill that is tried on every request
EveryRequest(q) == TRUE

\* !this.tasks?.length
QueueEmpty(q) == Len(q) = 0

\* the head callback of promiseTrain runs up to its end or up to
\* `await this.taskGenerator()`
\* handlers that run their callback at once instead of chaining it on
\* promiseTrain: a callback runs while another awaits the generator
ProcessNextUnchained ==
    /\ train # <<>>
    /\ LET s == Head(train)
       IN  /\ train' = Tail(train)
           /\ IF NotEligible(s)
              THEN /\ Emit(s, "noTask", NoTask, FALSE)
                   /\ UNCHANGED <<tasks, taskStatuses, suspended>>
              ELSE IF QueueEmpty(tasks) /\ taskGenerator /\ suspended = <<>>
              THEN /\ suspended' = <<[socket |-> s, worker |-> workers[s]]>>
                   /\ UNCHANGED <<tasks, taskStatuses>>
                   /\ NoEmit
              ELSE /\ Decide(s, workers[s], tasks, taskStatuses, FALSE)
                   /\ UNCHANGED suspended
    /\ UNCHANGED <<workers, conn, taskGenerator, workerVars, basicVars, startVars, setupVars, rejected>>
    /\ NoResult /\ NoRejection
ProcessNext ==
    /\ train # <<>>
    /\ suspended = <<>>
    /\ LET s == Head(train)
       IN  /\ train' = Tail(train)
           /\ IF NotEligible(s)
              THEN /\ Emit(s, "noTask", NoTask, FALSE)
                   /\ UNCHANGED <<tasks, taskStatuses, suspended>>
              ELSE IF QueueEmpty(tasks) /\ taskGenerator
              THEN /\ suspended' = <<[socket |-> s, worker |-> workers[s]]>>
                   /\ UNCHANGED <<tasks, taskStatuses>>
                   /\ NoEmit
              ELSE /\ Decide(s, workers[s], tasks, taskStatuses, FALSE)
                   /\ UNCHANGED suspended
    /\ UNCHANGED <<workers, conn, taskGenerator, workerVars, basicVars, startVars, setupVars, rejected>>
    /\ NoResult /\ NoRejection

\* lists taskGenerator() may resolve to (null and [] behave alike)
GenOutputs == UNION {[1..n -> DynamicTask] : n \in 0..MaxGen}

\* gooseTasks after taskGenerator() resolved, then the rest of the callback
GeneratorReturns(newTasks) ==
    /\ suspended # <<>>
    /\ newTasks = <<>> \/ Len(tasks) + Len(newTasks) <= MaxQueue
    /\ Decide(suspended[1].socket, suspended[1].worker,
              tasks \o newTasks, RegisterPending(taskStatuses, newTasks), TRUE)
    /\ suspended' = <<>>
    /\ UNCHANGED <<workers, conn, taskGenerator, workerVars, basicVars, startVars, setupVars, train, rejected>>
    /\ NoResult /\ NoRejection

\* taskGenerator() rejects: gooseTasks and the callback reject, promiseTrain
\* becomes a rejected promise, the callbacks chained behind it are skipped and
\* every waiting handler's `await this.promiseTrain` rejects
GeneratorThrows ==
    /\ suspended # <<>>
    /\ suspended' = <<>>
    /\ rejected' = TRUE
    /\ train' = <<>>
    /\ unhandled' = {suspended[1].socket} \cup {train[i] : i \in DOMAIN train}
    /\ UNCHANGED <<tasks, taskStatuses, workers, conn, taskGenerator, workerVars, basicVars, startVars, setupVars>>
    /\ NoEmit /\ NoResult

(* ---------------------------- worker reports -------------------------- *)
\* key under which handleTaskResults marks a result: d.taskId, a string
StrKey(id) == [str |-> id]

\* a filter that lets no result through
FilterAll(results, handled) == <<>>

\* results.filter(x => !this.taskStatusHandled.get(x)): the map is looked up
\* with the result object itself
FilterResults(results, handled) == SelectSeq(results, LAMBDA x : x \notin handled)

\* handleTaskResults(results); onResult may throw, which skips the marking
HandleTaskResults(results, thrown) ==
    /\ onResultArgs' = <<FilterResults(results, taskStatusHandled)>>
    /\ taskStatusHandled' =
          IF thrown THEN taskStatusHandled
          ELSE taskStatusHandled \cup {StrKey(results[i].taskId) : i \in DOMAIN results}

\* a status assignment that is lost
WithStatusLost(taskStatus, status) == taskStatus

\* taskStatus.status = status
WithStatus(taskStatus, status) == [taskStatus EXCEPT !.status = status]

\* a completion that is applied to an installed task only
MarkCompletedIfInstalled(st, taskId) ==
    IF StatusOf(st, taskId) = "installed"
    THEN MapSet(st, taskId, WithStatus(MapGet(st, taskId), "completed"))
    ELSE st

\* const taskStatus = this.taskStatuses.get(data.taskId);
\* if (taskStatus) { taskStatus.status = 'completed'; this.taskStatuses.set(...) }
MarkCompleted(st, taskId) ==
    IF MapHas(st, taskId)
    THEN MapSet(st, taskId, WithStatus(MapGet(st, taskId), "completed"))
    ELSE st

\* socket.on('taskCompleted')
TaskCompleted(s, data, thrown) ==
    /\ Quiescent
    /\ conn[s] = "connected"
    /\ taskStatuses' = MarkCompleted(taskStatuses, data.taskId)
    /\ HandleTaskResults(<<data>>, thrown)
    /\ UNCHANGED <<tasks, workers, conn, taskGenerator, workerVars, basicVars, startVars, setupVars, train, suspended, rejected>>
    /\ NoEmit /\ NoRejection

\* what the installationStatus handler leaves in this.tasks and
\* this.taskStatuses, run on queue q and status table st
InstallationOutcome(q, st, taskId, status) ==
    IF MapHas(st, taskId)
    THEN LET taskStatus == MapGet(st, taskId)
         IN  IF status = "success"
             THEN [tasks |-> q,
                   taskStatuses |-> MapSet(st, taskId, WithStatus(taskStatus, "installed"))]
             ELSE [tasks |-> Append(q, taskStatus.task),
                   taskStatuses |-> MapSet(st, taskId, WithStatus(taskStatus, "failed"))]
    ELSE [tasks |-> q, taskStatuses |-> st]

\* socket.on('installationStatus')
InstallationStatus(s, taskId, status) ==
    /\ Quiescent
    /\ conn[s] = "connected"
    /\ (MapHas(taskStatuses, taskId) /\ status = "failure") => Len(tasks) < MaxQueue
    /\ LET after == InstallationOutcome(tasks, taskStatuses, taskId, status)
       IN  tasks' = after.tasks /\ taskStatuses' = after.taskStatuses
    /\ UNCHANGED <<workers, conn, taskGenerator, workerVars, basicVars, startVars, setupVars, train, suspended, rejected>>
    /\ NoEmit /\ NoResult /\ NoRejection

\* a test that ignores the status
ReassignableAnyStatus(e, s) == e.val.assignedTo = s

\* status.assignedTo === socket.id && status.status !== 'completed'
Reassignable(e, s) == e.val.assignedTo = s /\ e.val.status # "completed"

\* the tasks the disconnect handler pushes, in taskStatuses iteration order
RECURSIVE Requeued(_, _)
Requeued(st, s) ==
    IF st = <<>> THEN <<>>
    ELSE (IF Reassignable(Head(st), s) THEN <<Head(st).val.task>> ELSE <<>>)
         \o Requeued(Tail(st), s)

\* socket.on('disconnect')
Disconnect(s) ==
    /\ Quiescent
    /\ conn[s] = "connected"
    /\ conn' = [conn EXCEPT ![s] = "gone"]
    /\ workers' = WorkersDelete(workers, s)
    /\ tasks' = tasks \o Requeued(taskStatuses, s)
    /\ taskStatuses' = SelectSeq(taskStatuses, LAMBDA e : ~Reassignable(e, s))
    /\ UNCHANGED <<taskGenerator, workerVars, basicVars, startVars, setupVars, train, suspended, rejected>>
    /\ NoEmit /\ NoResult /\ NoRejection

TaskResult == [taskId : CompletedIds, result : Results]

Next ==
    \/ \E t \in DynamicTask : Enqueue(t)
    \/ \E s \in Sockets : Connection(s)
    \/ \E s \in Sockets : \E c \in CapLists(s) : RegisterCapabilities(s, c)
    \/ \E s \in Sockets : \E c \in CapLists(s) : NotifyReady(s, c)
    \/ \E s \in Sockets : RequestTask(s)
    \/ ProcessNext
    \/ \E n \in GenOutputs : GeneratorReturns(n)
    \/ GeneratorThrows
    \/ \E s \in Sockets, d \in TaskResult, thrown \in BOOLEAN : TaskCompleted(s, d, thrown)
    \/ \E s \in Sockets, id \in ReportIds, st \in {"success", "failure"} :
          InstallationStatus(s, id, st)
    \/ \E s \in Sockets : Disconnect(s)

Spec == Init /\ [][Next]_vars

\* the events that decide a reply to requestTask, with a task generator that
\* does not fail
ReplyNext ==
    \/ \E t \in DynamicTask : Enqueue(t)
    \/ \E s \in Sockets : Connection(s)
    \/ \E s \in Sockets : \E c \in CapLists(s) : RegisterCapabilities(s, c)
    \/ \E s \in Sockets : \E c \in CapLists(s) : NotifyReady(s, c)
    \/ \E s \in Sockets : RequestTask(s)
    \/ ProcessNext
    \/ \E n \in GenOutputs : GeneratorReturns(n)
    \/ \E s \in Sockets, id \in ReportIds : InstallationStatus(s, id, "failure")
    \/ \E s \in Sockets : Disconnect(s)

ReplySpec == Init /\ [][ReplyNext]_vars

\* a chained requestTask callback runs (microtask), and taskGenerator() settles
ReplyFairness ==
    /\ WF_vars(ProcessNext)
    /\ WF_vars(\E n \in GenOutputs : GeneratorReturns(n))

ReplyLive == ReplySpec /\ ReplyFairness

\* the same events with a task generator that may fail
OrderNext ==
    \/ ReplyNext
    \/ GeneratorThrows

OrderSpec == Init /\ [][OrderNext]_vars

\* producers that also enqueue tasks without taskId (options.taskId is optional)
Producible == DynamicTask \cup {[taskId |-> "", taskType |-> "x"],
                                [taskId |-> "", taskType |-> "y"]}

\* the coordinator with such producers; workers report on the tasks of DynamicTask
ProducerNext ==
    \/ \E t \in Producible : Enqueue(t)
    \/ \E s \in Sockets : Connection(s)
    \/ \E s \in Sockets : NotifyReady(s, TaskTypesOf(s))
    \/ \E s \in Sockets : RequestTask(s)
    \/ ProcessNext
    \/ \E n \in GenOutputs : GeneratorReturns(n)
    \/ GeneratorThrows
    \/ \E s \in Sockets, d \in TaskResult, thrown \in BOOLEAN : TaskCompleted(s, d, thrown)
    \/ \E s \in Sockets : Disconnect(s)

ProducerSpec == Init /\ [][ProducerNext]_vars

\* the taskId of task was never supplied: a supplied task is in the queue or
\* tracked from then on (dispatch tracks what it takes from the queue,
\* disconnect queues what it stops tracking)
Unseen(task) ==
    /\ ~MapHas(taskStatuses, KeyOf(task))
    /\ \A i \in DOMAIN tasks : KeyOf(tasks[i]) # KeyOf(task)
\* a generator result whose tasks have taskIds never supplied, each once
UnseenAll(newTasks) ==
    /\ \A i \in DOMAIN newTasks : Unseen(newTasks[i])
    /\ \A i, j \in DOMAIN newTasks : i # j => KeyOf(newTasks[i]) # KeyOf(newTasks[j])

\* appendTask / POST /addTask with a taskId not used before
EnqueueUnseen(task) == Unseen(task) /\ Enqueue(task)
\* taskGenerator() resolving to tasks with taskIds not used before
GeneratorReturnsUnseen(newTasks) == UnseenAll(newTasks) /\ GeneratorReturns(newTasks)

\* the coordinator with producers and a generator that supply every taskId
\* at most once
UniqueNext ==
    \/ \E t \in DynamicTask : EnqueueUnseen(t)
    \/ \E s \in Sockets : Connection(s)
    \/ \E s \in Sockets : \E c \in CapLists(s) : RegisterCapabilities(s, c)
    \/ \E s \in Sockets : \E c \in CapLists(s) : NotifyReady(s, c)
    \/ \E s \in Sockets : RequestTask(s)
    \/ ProcessNext
    \/ \E n \in GenOutputs : GeneratorReturnsUnseen(n)
    \/ GeneratorThrows
    \/ \E s \in Sockets, d \in TaskResult, thrown \in BOOLEAN : TaskCompleted(s, d, thrown)
    \/ \E s \in Sockets, id \in ReportIds, st \in {"success", "failure"} :
          InstallationStatus(s, id, st)
    \/ \E s \in Sockets : Disconnect(s)

UniqueSpec == Init /\ [][UniqueNext]_vars

\* the enhanced worker's taskCompleted: sent on the socket a tracked task is
\* assigned to, and its onResult does not throw
TaskCompletedByAssignee(s, data) ==
    /\ AssigneeOf(taskStatuses, data.taskId) = s
    /\ TaskCompleted(s, data, FALSE)

\* the coordinator with producers that supply every taskId at most once and
\* completions that come from the assigned worker; requestTask,
\* installationStatus and disconnect events arrive in any order
CompletionNext ==
    \/ \E t \in DynamicTask : EnqueueUnseen(t)
    \/ \E s \in Sockets : Connection(s)
    \/ \E s \in Sockets : NotifyReady(s, TaskTypesOf(s))
    \/ \E s \in Sockets : RequestTask(s)
    \/ ProcessNext
    \/ \E n \in GenOutputs : GeneratorReturnsUnseen(n)
    \/ \E s \in Sockets, d \in TaskResult : TaskCompletedByAssignee(s, d)
    \/ \E s \in Sockets, id \in ReportIds, st \in {"success", "failure"} :
          InstallationStatus(s, id, st)
    \/ \E s \in Sockets : Disconnect(s)

CompletionSpec == Init /\ [][CompletionNext]_vars

\* the coordinator with such producers and a generator that does not fail
DispatchNext ==
    \/ \E t \in DynamicTask : EnqueueUnseen(t)
    \/ \E s \in Sockets : Connection(s)
    \/ \E s \in Sockets : NotifyReady(s, TaskTypesOf(s))
    \/ \E s \in Sockets : RequestTask(s)
    \/ ProcessNext
    \/ \E n \in GenOutputs : GeneratorReturnsUnseen(n)
    \/ \E s \in Sockets, d \in TaskResult : TaskCompleted(s, d, FALSE)
    \/ \E s \in Sockets, id \in ReportIds, st \in {"success", "failure"} :
          InstallationStatus(s, id, st)
    \/ \E s \in Sockets : Disconnect(s)

DispatchSpec == Init /\ [][DispatchNext]_vars

\* a chained requestTask callback runs (microtask), and taskGenerator() settles
DispatchFairness ==
    /\ WF_vars(ProcessNext)
    /\ WF_vars(\E n \in GenOutputs : GeneratorReturnsUnseen(n))

DispatchLive == DispatchSpec /\ DispatchFairness

(* ====================================================================== *)
(* EnhancedWorkerClient (enhanced-worker-client.ts)                       *)
(*                                                                        *)
(* The connect and assignTask handlers chain their work on the worker's   *)
(* promiseTrain; the noTask, disconnect and connect_error handlers run as *)
(* their event arrives.  The coordinator is the environment here: it      *)
(* answers a requestTask with assignTask or noTask, or not at all.        *)
(* ====================================================================== *)
\* options.taskTypes
OwnTaskTypes == <<"x", "y">>
\* tasks a coordinator assigns to this worker: one with and one without taskId
AssignedTasks == {[taskId |-> "t1", taskType |-> "x"],
                  [taskId |-> "", taskType |-> "y"]}
\* what executeDynamicTask resolves to: { success: true, ... } or, for an error
\* raised by the task's code, { success: false, error: 'Execution failed.', ... }
ExecutionResults == {[success |-> TRUE], [success |-> FALSE]}
\* error.message of a rejected setupDynamicTask / executeDynamicTask
SetupError == "Setup failed."
ExecuteError == "Compiled entry point not found"

\* task.taskId || 'N/A'
IdOrNA(task) == IF task.taskId = "" THEN "N/A" ELSE task.taskId

\* this.socket?.emit(...)
EmitRegisterCapabilities == [ev |-> "registerCapabilities", data |-> [taskTypes |-> OwnTaskTypes]]
EmitNotifyReady == [ev |-> "notifyReady", data |-> [taskTypes |-> OwnTaskTypes]]
EmitRequestTask == [ev |-> "requestTask", data |-> <<>>]
EmitInstallationSuccess(task) ==
    [ev |-> "installationStatus", data |-> [taskId |-> task.taskId, status |-> "success"]]
EmitInstallationFailure(task, message) ==
    [ev |-> "installationStatus",
     data |-> [taskId |-> IdOrNA(task), status |-> "failure", error |-> message]]
EmitTaskCompleted(task, result) ==
    [ev |-> "taskCompleted", data |-> [taskId |-> IdOrNA(task), result |-> result]]

\* the callbacks chained on promiseTrain
ConnectCallback == [kind |-> "connect", task |-> NoTask]
AssignCallback(task) == [kind |-> "assignTask", task |-> task]

\* a connect callback that requests no task
StartupWithoutRequest == <<EmitRegisterCapabilities, EmitNotifyReady>>

\* what the connect callback emits
Startup == <<EmitRegisterCapabilities, EmitNotifyReady, EmitRequestTask>>

\* a catch block that reports the failed installation only
CaughtUnreported(task, message) == <<EmitInstallationFailure(task, message)>>

\* the catch block of the assignTask callback
Caught(task, message) ==
    <<EmitInstallationFailure(task, message), EmitTaskCompleted(task, [error |-> message])>>

\* a callback end that requests no further task
FinallyNothing == <<>>

\* .finally(() => this.socket?.emit('requestTask'))
Finally == <<EmitRequestTask>>

\* a chain whose callbacks do not wait for each other
ChainAlwaysReady == TRUE

\* promiseTrain.then(callback): the callback runs once the callback chained
\* before it, with its finally, has settled
ChainReady == inFlight = <<>>

\* no chained callback is ready to run: the next socket or timer event is taken
WorkerQuiescent == chained = <<>> \/ ~ChainReady

Alive == started # "exited"
\* start() of client c has called connectToMaster(url)
Connecting(c) == url[c] # Undefined
NoSend == sent' = <<>>
\* the number of requestTask emissions in list out
Requests(out) == Cardinality({i \in DOMAIN out : out[i].ev = "requestTask"})
\* requestTask emissions wait for an answer; the coordinator answers at most
\* MaxUnanswered of them
Ask(out) ==
    unanswered' = IF unanswered + Requests(out) > MaxUnanswered THEN MaxUnanswered
                  ELSE unanswered + Requests(out)
\* the in-flight callbacks without the i-th
Ended(fl, i) == SubSeq(fl, 1, i - 1) \o SubSeq(fl, i + 1, Len(fl))

\* socket.on('connect'): first connection and every reconnection
TransportConnect ==
    /\ Alive /\ WorkerQuiescent
    /\ Connecting("enhanced")
    /\ link = "down"
    /\ Len(chained) < MaxChained
    /\ link' = "up"
    /\ chained' = Append(chained, ConnectCallback)
    /\ NoSend
    /\ UNCHANGED <<started, inFlight, unanswered, timers, coordVars, basicVars, startVars, setupVars>>

\* socket.on('connect_error'): reject(false); while start() still awaits
\* connectToMaster the rejection reaches its catch, which calls process.exit(1)
ConnectError ==
    /\ Alive /\ WorkerQuiescent
    /\ Connecting("enhanced")
    /\ link = "down"
    /\ started' = IF started = "connecting" THEN "exited" ELSE started
    /\ NoSend
    /\ UNCHANGED <<link, chained, inFlight, unanswered, timers, coordVars, basicVars, startVars, setupVars>>

\* socket.on('disconnect'): logs; requests sent on the lost connection get no answer
TransportDisconnect ==
    /\ Alive /\ WorkerQuiescent
    /\ link = "up"
    /\ link' = "down"
    /\ unanswered' = 0
    /\ NoSend
    /\ UNCHANGED <<started, chained, inFlight, timers, coordVars, basicVars, startVars, setupVars>>

\* socket.on('assignTask')
ReceiveAssignTask(task) ==
    /\ Alive /\ WorkerQuiescent
    /\ link = "up"
    /\ unanswered > 0
    /\ Len(chained) < MaxChained
    /\ unanswered' = unanswered - 1
    /\ chained' = Append(chained, AssignCallback(task))
    /\ NoSend
    /\ UNCHANGED <<started, link, inFlight, timers, coordVars, basicVars, startVars, setupVars>>

\* socket.on('noTask'): setTimeout(..., 10000)
ReceiveNoTask ==
    /\ Alive /\ WorkerQuiescent
    /\ link = "up"
    /\ unanswered > 0
    /\ timers < MaxTimers
    /\ unanswered' = unanswered - 1
    /\ timers' = timers + 1
    /\ NoSend
    /\ UNCHANGED <<started, link, chained, inFlight, coordVars, basicVars, startVars, setupVars>>

\* a timer callback that also asks for a task
TimerCallbackRequests(taskTypes) ==
    IF Len(taskTypes) > 0
    THEN <<[ev |-> "registerCapabilities", data |-> [taskTypes |-> taskTypes]],
           [ev |-> "notifyReady", data |-> [taskTypes |-> taskTypes]],
           EmitRequestTask>>
    ELSE <<EmitRequestTask>>

\* the callback of the noTask handler's setTimeout, for this.taskTypes
TimerCallback(taskTypes) ==
    IF Len(taskTypes) > 0
    THEN <<[ev |-> "registerCapabilities", data |-> [taskTypes |-> taskTypes]],
           [ev |-> "notifyReady", data |-> [taskTypes |-> taskTypes]]>>
    ELSE <<>>

\* the timer of the noTask handler fires
TimerFires ==
    /\ Alive /\ WorkerQuiescent
    /\ timers > 0
    /\ timers' = timers - 1
    /\ sent' = TimerCallback(OwnTaskTypes)
    /\ UNCHANGED <<started, link, chained, inFlight, unanswered, coordVars, basicVars, startVars, setupVars>>

\* the head callback of promiseTrain runs: the connect callback to its end, an
\* assignTask callback up to `await setupDynamicTask(task)`
WorkerProcessNext ==
    /\ Alive
    /\ chained # <<>>
    /\ ChainReady
    /\ chained' = Tail(chained)
    /\ IF Head(chained).kind = "connect"
       THEN /\ sent' = Startup
            /\ Ask(Startup)
            /\ started' = "started"
            /\ UNCHANGED inFlight
       ELSE /\ inFlight' = Append(inFlight, [task |-> Head(chained).task, stage |-> "setup"])
            /\ NoSend
            /\ UNCHANGED <<started, unanswered>>
    /\ UNCHANGED <<link, timers, coordVars, basicVars, startVars, setupVars>>

\* setupDynamicTask resolves: installationStatus success, then
\* `await executeDynamicTask(task)`
SetupResolves(i) ==
    /\ Alive
    /\ i \in DOMAIN inFlight
    /\ inFlight[i].stage = "setup"
    /\ sent' = <<EmitInstallationSuccess(inFlight[i].task)>>
    /\ inFlight' = [inFlight EXCEPT ![i].stage = "execute"]
    /\ UNCHANGED <<started, link, chained, unanswered, timers, coordVars, basicVars, startVars, setupVars>>

\* the catch block of the i-th in-flight callback, then its finally
CatchAndEnd(i, message) ==
    /\ sent' = Caught(inFlight[i].task, message) \o Finally
    /\ Ask(Caught(inFlight[i].task, message) \o Finally)
    /\ inFlight' = Ended(inFlight, i)
    /\ UNCHANGED <<started, link, chained, timers, coordVars, basicVars, startVars, setupVars>>

\* setupDynamicTask rejects
SetupRejects(i) ==
    /\ Alive
    /\ i \in DOMAIN inFlight
    /\ inFlight[i].stage = "setup"
    /\ CatchAndEnd(i, SetupError)

\* executeDynamicTask rejects: the compiled entry point is missing
ExecuteRejects(i) ==
    /\ Alive
    /\ i \in DOMAIN inFlight
    /\ inFlight[i].stage = "execute"
    /\ CatchAndEnd(i, ExecuteError)

\* executeDynamicTask resolves: taskCompleted with the result, then the finally
ExecuteResolves(i, result) ==
    /\ Alive
    /\ i \in DOMAIN inFlight
    /\ inFlight[i].stage = "execute"
    /\ sent' = <<EmitTaskCompleted(inFlight[i].task, result)>> \o Finally
    /\ Ask(<<EmitTaskCompleted(inFlight[i].task, result)>> \o Finally)
    /\ inFlight' = Ended(inFlight, i)
    /\ UNCHANGED <<started, link, chained, timers, coordVars, basicVars, startVars, setupVars>>

WorkerNext ==
    \/ TransportConnect
    \/ ConnectError
    \/ TransportDisconnect
    \/ \E t \in AssignedTasks : ReceiveAssignTask(t)
    \/ ReceiveNoTask
    \/ TimerFires
    \/ WorkerProcessNext
    \/ \E i \in 1..MaxChained : SetupResolves(i)
    \/ \E i \in 1..MaxChained : SetupRejects(i)
    \/ \E i \in 1..MaxChained : ExecuteRejects(i)
    \/ \E i \in 1..MaxChained, r \in ExecutionResults : ExecuteResolves(i, r)

WorkerSpec == Init /\ [][WorkerNext]_vars

\* the worker's own steps are taken when they can be: a ready callback runs, a
\* timer fires, setup and execution end
WorkerFairness ==
    /\ WF_vars(WorkerProcessNext)
    /\ WF_vars(TimerFires)
    /\ WF_vars(\E i \in 1..MaxChained : SetupResolves(i) \/ SetupRejects(i))
    /\ WF_vars(\E i \in 1..MaxChained :
                  ExecuteRejects(i) \/ \E r \in ExecutionResults : ExecuteResolves(i, r))

WorkerLive == WorkerSpec /\ WorkerFairness

(* ====================================================================== *)
(* Basic batch-pull protocol: TaskDistributor (task-distributor.ts) and   *)
(* WorkerClient (worker-client.ts)                                        *)
(*                                                                        *)
(* The distributor's handlers are synchronous: each runs to its end as    *)
(* its event arrives.  Events of one connection arrive in the order they  *)
(* were emitted.  A WorkerClient's provideTasks handler awaits            *)
(* processTasks; the transport of a connected worker is taken to stay up. *)
(* ====================================================================== *)
BasicInit ==
    /\ tasks = <<>>
    /\ taskStatuses = <<>>
    /\ taskStatusHandled = {}
    /\ workers = <<>>
    /\ conn = [s \in Sockets |-> "new"]
    /\ taskGenerator = FALSE
    /\ train = <<>>
    /\ suspended = <<>>
    /\ rejected = FALSE
    /\ emitted = <<>>
    /\ onResultArgs = <<>>
    /\ unhandled = {}
    /\ started = "connecting"
    /\ link = "down"
    /\ chained = <<>>
    /\ inFlight = <<>>
    /\ unanswered = 0
    /\ timers = 0
    /\ sent = <<>>
    /\ \E b \in 1..MaxBatch : BasicConstructed(b)
    /\ Located(MasterAddress)
    /\ NothingSetUp

\* socket.emit / this.socket?.emit
ProvideTasks(batch) == [ev |-> "provideTasks", tasks |-> batch]
NoMoreTasks == [ev |-> "noMoreTasks", tasks |-> <<>>]
EmitRequestTasks == [ev |-> "requestTasks", results |-> <<>>]
EmitTaskResults(results) == [ev |-> "taskResults", results |-> results]

\* the entries numbered after `from`, n of them
Fresh(from, n) == [i \in 1..n |-> from + i]
\* lengths of the list a getTasks call may return; [] once the source is used up
GetTasksLengths == {n \in 0..MaxLoad : supplied + n <= MaxSupplied}

Min(a, b) == IF a < b THEN a ELSE b

\* a splice that takes the whole queue
SpliceAll(q, b) == q

\* this.tasks.splice(0, this.batchSize): the removed entries
SpliceBatch(q, b) == SubSeq(q, 1, Min(b, Len(q)))
\* a batch that is read with slice and stays in the queue
SpliceRestNone(q, b) == q
\* this.tasks.splice(0, this.batchSize): what stays in the queue
SpliceRest(q, b) == SubSeq(q, Len(SpliceBatch(q, b)) + 1, Len(q))

\* socket.emit(msg) to worker w
SendTo(box, w, msg) == [box EXCEPT ![w] = Append(@, msg)]

\* the events worker w emitted reach the distributor in order
Arrives(w, ev) == outbox[w] # <<>> /\ Head(outbox[w]).ev = ev
Taken(w) == [outbox EXCEPT ![w] = Tail(@)]

\* socket.on('requestTasks'); n is the length of the list getTasks returns
\* if it is called
OnRequestTasks(w, n) ==
    /\ Arrives(w, "requestTasks")
    /\ outbox' = Taken(w)
    /\ getTasksCalled' = (Len(distTasks) = 0)
    /\ IF Len(distTasks) = 0 THEN n \in GetTasksLengths ELSE n = 0
    /\ LET loaded == IF Len(distTasks) = 0 THEN Fresh(supplied, n) ELSE distTasks
       IN  /\ supplied' = supplied + n
           /\ IF Len(loaded) = 0
              THEN /\ inbox' = SendTo(inbox, w, NoMoreTasks)
                   /\ distTasks' = loaded
              ELSE /\ inbox' = SendTo(inbox, w, ProvideTasks(SpliceBatch(loaded, batchSize)))
                   /\ distTasks' = SpliceRest(loaded, batchSize)
    /\ handledResults' = <<>>
    /\ UNCHANGED <<batchSize, phase, processing, coordVars, workerVars, startVars, setupVars>>

\* socket.on('taskResults')
OnTaskResults(w) ==
    /\ Arrives(w, "taskResults")
    /\ outbox' = Taken(w)
    /\ handledResults' = <<Head(outbox[w]).results>>
    /\ getTasksCalled' = FALSE
    /\ UNCHANGED <<distTasks, batchSize, supplied, phase, inbox, processing,
                   coordVars, workerVars, startVars, setupVars>>

\* addTask(task)
AddTask ==
    /\ supplied < MaxSupplied
    /\ distTasks' = Append(distTasks, supplied + 1)
    /\ supplied' = supplied + 1
    /\ getTasksCalled' = FALSE
    /\ handledResults' = <<>>
    /\ UNCHANGED <<batchSize, phase, inbox, outbox, processing, coordVars, workerVars, startVars, setupVars>>

NoDistributorStep ==
    /\ getTasksCalled' = FALSE
    /\ handledResults' = <<>>
    /\ UNCHANGED <<distTasks, batchSize, supplied>>

\* the process of worker w runs
Running(w) == phase[w] \notin {"exited", "failed"}

\* socket.on('connect'): emit requestTasks; start() returns
ClientConnect(w) ==
    /\ phase[w] = "connecting"
    /\ Connecting(w)
    /\ phase' = [phase EXCEPT ![w] = "waiting"]
    /\ outbox' = SendTo(outbox, w, EmitRequestTasks)
    /\ NoDistributorStep
    /\ UNCHANGED <<inbox, processing, coordVars, workerVars, startVars, setupVars>>

\* socket.on('connect_error') before the first connect: reject(err), caught by
\* start(), which calls process.exit(1)
ClientConnectError(w) ==
    /\ phase[w] = "connecting"
    /\ Connecting(w)
    /\ phase' = [phase EXCEPT ![w] = "failed"]
    /\ NoDistributorStep
    /\ UNCHANGED <<inbox, outbox, processing, coordVars, workerVars, startVars, setupVars>>

Received(w, ev) == Running(w) /\ inbox[w] # <<>> /\ Head(inbox[w]).ev = ev

\* socket.on('provideTasks'), up to `await this.processTasksFn(data.tasks)`
OnProvideTasks(w) ==
    /\ Received(w, "provideTasks")
    /\ inbox' = [inbox EXCEPT ![w] = Tail(@)]
    /\ processing' = [processing EXCEPT ![w] = Append(@, Head(inbox[w]).tasks)]
    /\ phase' = [phase EXCEPT ![w] = "processing"]
    /\ NoDistributorStep
    /\ UNCHANGED <<outbox, coordVars, workerVars, startVars, setupVars>>

\* what processTasks resolves to for a batch: one result per task
ResultsOf(batch) == [i \in DOMAIN batch |-> [task |-> batch[i], done |-> TRUE]]

\* a handler end that emits nothing
AfterBatchNothing(results) == <<>>

\* the rest of the provideTasks handler: emit taskResults, emit requestTasks
AfterBatch(results) == <<EmitTaskResults(results), EmitRequestTasks>>

\* processTasks resolves
ProcessTasksResolves(w) ==
    /\ Running(w)
    /\ processing[w] # <<>>
    /\ processing' = [processing EXCEPT ![w] = Tail(@)]
    /\ outbox' = [outbox EXCEPT ![w] = @ \o AfterBatch(ResultsOf(Head(processing[w])))]
    /\ phase' = [phase EXCEPT ![w] = IF Tail(processing[w]) = <<>> THEN "waiting" ELSE @]
    /\ NoDistributorStep
    /\ UNCHANGED <<inbox, coordVars, workerVars, startVars, setupVars>>

\* processTasks rejects: the handler's promise is rejected and nothing handles
\* it; whether the process then lingers or is ended by the runtime, it emits
\* nothing more
ProcessTasksRejects(w) ==
    /\ Running(w)
    /\ processing[w] # <<>>
    /\ processing' = [processing EXCEPT ![w] = Tail(@)]
    /\ phase' = [phase EXCEPT ![w] = "rejected"]
    /\ NoDistributorStep
    /\ UNCHANGED <<inbox, outbox, coordVars, workerVars, startVars, setupVars>>

\* socket.on('noMoreTasks'): process.exit(0)
OnNoMoreTasks(w) ==
    /\ Received(w, "noMoreTasks")
    /\ inbox' = [inbox EXCEPT ![w] = Tail(@)]
    /\ phase' = [phase EXCEPT ![w] = "exited"]
    /\ NoDistributorStep
    /\ UNCHANGED <<outbox, processing, coordVars, workerVars, startVars, setupVars>>

BasicNext ==
    \/ \E w \in BasicWorkers, n \in 0..MaxLoad : OnRequestTasks(w, n)
    \/ \E w \in BasicWorkers : OnTaskResults(w)
    \/ AddTask
    \/ \E w \in BasicWorkers : ClientConnect(w)
    \/ \E w \in BasicWorkers : ClientConnectError(w)
    \/ \E w \in BasicWorkers : OnProvideTasks(w)
    \/ \E w \in BasicWorkers : ProcessTasksResolves(w)
    \/ \E w \in BasicWorkers : ProcessTasksRejects(w)
    \/ \E w \in BasicWorkers : OnNoMoreTasks(w)

BasicSpec == BasicInit /\ [][BasicNext]_vars

\* emitted events are delivered and handled, and processTasks settles
BasicFairness ==
    \A w \in BasicWorkers :
        /\ WF_vars(\E n \in 0..MaxLoad : OnRequestTasks(w, n))
        /\ WF_vars(OnTaskResults(w))
        /\ WF_vars(OnProvideTasks(w))
        /\ WF_vars(OnNoMoreTasks(w))
        /\ WF_vars(ProcessTasksResolves(w) \/ ProcessTasksRejects(w))

BasicLive == BasicSpec /\ BasicFairness

(* ---------- the basic protocol on a coordinator connection ------------ *)
\* one run of the requestTasks handler the coordinator inherits from
\* TaskDistributor, on queue q: what it emits and what it leaves queued.
\* getTasks is () => this.getAvailableTasks(), which returns this.tasks, so
\* the reload of an empty queue leaves it empty.
InheritedRun(s, q) ==
    IF Len(q) = 0
    THEN [emits |-> <<[to |-> s, ev |-> "noMoreTasks", tasks |-> <<>>]>>, tasks |-> q]
    ELSE [emits |-> <<[to |-> s, ev |-> "provideTasks", tasks |-> SpliceBatch(q, batchSize)]>>,
          tasks |-> SpliceRest(q, batchSize)]

\* socket.on('requestTasks') on a coordinator connection.  setupSockets runs
\* twice (once from the TaskDistributor constructor, once from the
\* coordinator's), so every connection carries the handler twice and one
\* event runs it twice in a row.
RequestTasks(s) ==
    /\ Quiescent
    /\ conn[s] = "connected"
    /\ LET first == InheritedRun(s, tasks)
           second == InheritedRun(s, first.tasks)
       IN  /\ tasks' = second.tasks
           /\ emitted' = first.emits \o second.emits
    /\ UNCHANGED <<taskStatuses, workers, conn, taskGenerator, workerVars, basicVars,
                   startVars, setupVars, train, suspended, rejected>>
    /\ NoResult /\ NoRejection

\* the coordinator with connections that also speak the basic protocol;
\* workers announce their own task types and send no installation reports,
\* and the generator does not fail
InheritedNext ==
    \/ \E t \in DynamicTask : Enqueue(t)
    \/ \E s \in Sockets : Connection(s)
    \/ \E s \in Sockets : NotifyReady(s, TaskTypesOf(s))
    \/ \E s \in Sockets : RequestTask(s)
    \/ \E s \in Sockets : RequestTasks(s)
    \/ ProcessNext
    \/ \E n \in GenOutputs : GeneratorReturns(n)
    \/ \E s \in Sockets, d \in TaskResult : TaskCompleted(s, d, FALSE)
    \/ \E s \in Sockets : Disconnect(s)

InheritedSpec == Init /\ [][InheritedNext]_vars

(* ====================================================================== *)
(* start() and discoverMaster() (enhanced-worker-client.ts and            *)
(* worker-client.ts)                                                      *)
(*                                                                        *)
(* discoverMaster browses for services and arms a timer; start() awaits   *)
(* its promise.  A promise settles once: a resolve or reject after that   *)
(* changes nothing.  The continuation of start() runs in the microtask    *)
(* that follows the settling, before any other event is handled.          *)
(* ====================================================================== *)
\* most 'up' events one browser delivers
MaxUps == 2

\* options.masterUrl values: not given, '' and the coordinator's address
MasterUrls == {Undefined, Str(<<>>), MasterAddress}
\* services that answer the browse
Services == {[host |-> "localhost", port |-> "3000"],
             [host |-> "10.0.0.2", port |-> "3000"]}

\* x ?? ...: x is neither null nor undefined
Nullish(x) == ~x.defined
\* if (x): a non-empty string
Truthy(x) == x.defined /\ x.parts # <<>>

\* const host = service.host === 'localhost' ? '127.0.0.1' : service.host;
\* const url = `http://${host}:${service.port}`
UrlOf(service) ==
    LET host == IF service.host = "localhost" THEN "127.0.0.1" ELSE service.host
    IN  Str(<<"http://", host, ":", service.port>>)

\* where start() of client c stands: "constructed" before it is called,
\* "discovering" while it awaits discoverMaster, then as `started` / `phase`
PositionOf(c) == IF c = "enhanced" THEN started ELSE phase[c]
Moves(c, to) ==
    IF c = "enhanced"
    THEN started' = to /\ UNCHANGED phase
    ELSE phase' = [phase EXCEPT ![c] = to] /\ UNCHANGED started
\* process.exit(1) in the catch of start()
Exits(c) == Moves(c, IF c = "enhanced" THEN "exited" ELSE "failed")

StartFrame ==
    UNCHANGED <<coordVars, link, chained, inFlight, unanswered, timers, sent,
                distTasks, batchSize, supplied, getTasksCalled, handledResults,
                inbox, outbox, processing, masterUrl, setupVars>>

\* start(): this.masterUrl ?? await this.discoverMaster(), then
\* connectToMaster(url)
Start(c) ==
    /\ PositionOf(c) = "constructed"
    /\ IF ~Nullish(masterUrl[c])
       THEN /\ url' = [url EXCEPT ![c] = masterUrl[c]]
            /\ Moves(c, "connecting")
            /\ UNCHANGED <<browser, discoveryTimer>>
       ELSE IF Truthy(masterUrl[c])
       THEN /\ url' = [url EXCEPT ![c] = masterUrl[c]]
            /\ Moves(c, "connecting")
            /\ UNCHANGED <<browser, discoveryTimer>>
       ELSE /\ browser' = [browser EXCEPT ![c] = "browsing"]
            /\ discoveryTimer' = [discoveryTimer EXCEPT ![c] = TRUE]
            /\ Moves(c, "discovering")
            /\ UNCHANGED url
    /\ UNCHANGED <<found, ups>>
    /\ StartFrame

\* browser.on('up'): the first one stops the browser and resolves the promise
ServiceUp(c, service) ==
    /\ PositionOf(c) \notin {"exited", "failed"}
    /\ browser[c] # "none"
    /\ Len(ups[c]) < MaxUps
    /\ ups' = [ups EXCEPT ![c] = Append(@, service)]
    /\ IF ~found[c]
       THEN /\ found' = [found EXCEPT ![c] = TRUE]
            /\ browser' = [browser EXCEPT ![c] = "stopped"]
            /\ IF PositionOf(c) = "discovering"
               THEN url' = [url EXCEPT ![c] = UrlOf(service)] /\ Moves(c, "connecting")
               ELSE UNCHANGED <<url, started, phase>>
       ELSE UNCHANGED <<found, browser, url, started, phase>>
    /\ UNCHANGED discoveryTimer
    /\ StartFrame

\* a timer callback that never rejects
RejectsNever(f) == FALSE

\* if (!found) reject(...)
Rejects(f) == ~f

\* the callback of setTimeout(..., this.discoveryTimeoutMs)
DiscoveryTimeout(c) ==
    /\ PositionOf(c) \notin {"exited", "failed"}
    /\ discoveryTimer[c]
    /\ discoveryTimer' = [discoveryTimer EXCEPT ![c] = FALSE]
    /\ IF Rejects(found[c]) /\ PositionOf(c) = "discovering"
       THEN Exits(c)
       ELSE UNCHANGED <<started, phase>>
    /\ UNCHANGED <<url, found, browser, ups>>
    /\ StartFrame

\* worker processes constructed with any masterUrl option, start() not yet called
StartInit ==
    /\ tasks = <<>>
    /\ taskStatuses = <<>>
    /\ taskStatusHandled = {}
    /\ workers = <<>>
    /\ conn = [s \in Sockets |-> "new"]
    /\ taskGenerator = FALSE
    /\ train = <<>>
    /\ suspended = <<>>
    /\ rejected = FALSE
    /\ emitted = <<>>
    /\ onResultArgs = <<>>
    /\ unhandled = {}
    /\ started = "constructed"
    /\ link = "down"
    /\ chained = <<>>
    /\ inFlight = <<>>
    /\ unanswered = 0
    /\ timers = 0
    /\ sent = <<>>
    /\ distTasks = <<>>
    /\ batchSize = 5
    /\ supplied = 0
    /\ getTasksCalled = FALSE
    /\ handledResults = <<>>
    /\ phase = [w \in BasicWorkers |-> "constructed"]
    /\ inbox = [w \in BasicWorkers |-> <<>>]
    /\ outbox = [w \in BasicWorkers |-> <<>>]
    /\ processing = [w \in BasicWorkers |-> <<>>]
    /\ masterUrl \in [Clients -> MasterUrls]
    /\ url = [c \in Clients |-> Undefined]
    /\ found = [c \in Clients |-> FALSE]
    /\ browser = [c \in Clients |-> "none"]
    /\ discoveryTimer = [c \in Clients |-> FALSE]
    /\ ups = [c \in Clients |-> <<>>]
    /\ NothingSetUp

\* start-up of the worker processes up to the outcome of connectToMaster
StartNext ==
    \/ \E c \in Clients : Start(c)
    \/ \E c \in Clients, service \in Services : ServiceUp(c, service)
    \/ \E c \in Clients : DiscoveryTimeout(c)
    \/ TransportConnect
    \/ ConnectError
    \/ WorkerProcessNext
    \/ \E w \in BasicWorkers : ClientConnect(w)
    \/ \E w \in BasicWorkers : ClientConnectError(w)

StartSpec == StartInit /\ [][StartNext]_vars

(* ====================================================================== *)
(* setupDynamicTask (setupDynamicTask.ts)                                 *)
(*                                                                        *)
(* A string is the sequence of its pieces; "\n" is the newline.  A        *)
(* directory is the map from the paths of its files to their content.     *)
(* The worker awaits one setupDynamicTask call at a time.                 *)
(* ====================================================================== *)
\* path.join(projectDir, '.task_hash'), relative to projectDir
HashFile == ".task_hash"
\* the paths of task files, as Array.prototype.sort() orders them
SortedPaths == <<".task_hash", "a", "c">>
\* the `files` records of the tasks set up
FileSets ==
    {[p \in {"a"} |-> <<"b">>],
     [p \in {"a"} |-> <<"b", "\n", "c", "\n", "d">>],
     [p \in {"a", "c"} |-> IF p = "a" THEN <<"b">> ELSE <<"d">>],
     [p \in {"a", ".task_hash"} |-> IF p = "a" THEN <<"b">> ELSE <<"x">>]}
\* the tasks a worker is given to set up
SetupTasks == [files : FileSets, workingDirectory : WorkingDirectories, taskId : {""}]

\* crypto.createHash('sha256').update(data).digest('hex'): different data,
\* different digest, and no digest is a piece of a task file
ComputeHash(data) == <<"sha256">> \o data

\* getHashableContent(files): for each path in sorted order,
\* filePath + '\n' + files[filePath] + '\n'
RECURSIVE HashableFrom(_, _)
HashableFrom(paths, files) ==
    IF paths = <<>> THEN <<>>
    ELSE (IF Head(paths) \in DOMAIN files
          THEN <<Head(paths), "\n">> \o files[Head(paths)] \o <<"\n">>
          ELSE <<>>)
         \o HashableFrom(Tail(paths), files)
GetHashableContent(files) == HashableFrom(SortedPaths, files)

\* workingDirectory || path.join(__dirname, 'tasks', taskId || 'default-task')
ProjectDir(task) ==
    IF task.workingDirectory # <<>> THEN task.workingDirectory
    ELSE <<"__dirname", "tasks", IF task.taskId # "" THEN task.taskId ELSE "default-task">>

\* JSON.stringify(task.packageJson, null, 2) / JSON.stringify(task.tsconfigJson, null, 2)
PackageJsonText == <<"{package}">>
TsconfigJsonText == <<"{tsconfig}">>

\* fs.writeFileSync(path.join(projectDir, p), content)
WriteFile(dir, p, content) ==
    [q \in DOMAIN dir \cup {p} |-> IF q = p THEN content ELSE dir[q]]
\* the loop over Object.entries(files), then package.json and tsconfig.json
WriteProject(dir, files) ==
    LET written == [q \in DOMAIN dir \cup DOMAIN files |->
                       IF q \in DOMAIN files THEN files[q] ELSE dir[q]]
    IN  WriteFile(WriteFile(written, "package.json", PackageJsonText),
                  "tsconfig.json", TsconfigJsonText)

\* let previousHash = ''; if (fs.existsSync(hashFilePath)) previousHash = fs.readFileSync(...)
PreviousHash(dir) == IF HashFile \in DOMAIN dir THEN dir[HashFile] ELSE <<>>

\* const hasChanges = currentHash !== previousHash
HasChanges(currentHash, previousHash) == currentHash # previousHash

Settles(d, files, how) ==
    lastSetup' = [lastSetup EXCEPT ![d] = <<[files |-> files, ended |-> how]>>]

SetupFrame == UNCHANGED <<coordVars, workerVars, basicVars, startVars>>

\* setupDynamicTask(task) up to `await execAsync('npm install')`, or to its end
\* when no changes are detected
SetupBegins(task) ==
    /\ setupCall = <<>>
    /\ LET projectDir == ProjectDir(task)
           written == WriteProject(disk[projectDir], task.files)
           currentHash == ComputeHash(GetHashableContent(task.files))
           previousHash == PreviousHash(written)
       IN  /\ disk' = [disk EXCEPT ![projectDir] = written]
           /\ IF HasChanges(currentHash, previousHash)
              THEN /\ setupCall' = <<[task |-> task, projectDir |-> projectDir,
                                      currentHash |-> currentHash, awaits |-> "npm install"]>>
                   /\ execs' = <<"npm install">>
                   /\ settled' = "none"
                   /\ UNCHANGED lastSetup
              ELSE /\ UNCHANGED setupCall
                   /\ execs' = <<>>
                   /\ settled' = "resolved"
                   /\ Settles(projectDir, task.files, "skipped")
    /\ SetupFrame

\* `npm install` succeeded: `await execAsync('npm run build')`
InstallSucceeds ==
    /\ setupCall # <<>>
    /\ setupCall[1].awaits = "npm install"
    /\ setupCall' = <<[setupCall[1] EXCEPT !.awaits = "npm run build"]>>
    /\ execs' = <<"npm run build">>
    /\ settled' = "none"
    /\ UNCHANGED <<disk, lastSetup>>
    /\ SetupFrame

\* `npm run build` succeeded: fs.writeFileSync(hashFilePath, currentHash)
BuildSucceeds ==
    /\ setupCall # <<>>
    /\ setupCall[1].awaits = "npm run build"
    /\ disk' = [disk EXCEPT ![setupCall[1].projectDir] =
                    WriteFile(@, HashFile, setupCall[1].currentHash)]
    /\ setupCall' = <<>>
    /\ execs' = <<>>
    /\ settled' = "resolved"
    /\ Settles(setupCall[1].projectDir, setupCall[1].task.files, "built")
    /\ SetupFrame

\* either command failed: catch, throw new Error('Setup failed.')
CommandFails ==
    /\ setupCall # <<>>
    /\ setupCall' = <<>>
    /\ execs' = <<>>
    /\ settled' = "rejected"
    /\ Settles(setupCall[1].projectDir, setupCall[1].task.files, "failed")
    /\ UNCHANGED disk
    /\ SetupFrame

SetupNext ==
    \/ \E task \in SetupTasks : SetupBegins(task)
    \/ InstallSucceeds
    \/ BuildSucceeds
    \/ CommandFails

SetupSpec == Init /\ [][SetupNext]_vars

(* ====================================================================== *)
(* Properties                                                             *)
(* ====================================================================== *)
\* elements of an array
Range(arr) == {arr[i] : i \in DOMAIN arr}

\* the request callback that runs, or resumes, in the next coordinator step
Deciding ==
    IF suspended # <<>> THEN suspended[1]
    ELSE [socket |-> Head(train),
          worker |-> IF Head(train) \in DOMAIN workers THEN workers[Head(train)]
                     ELSE [socketId |-> Head(train), taskTypes |-> <<>>, isReady |-> FALSE]]
CallbackRuns == suspended # <<>> \/ train # <<>>
\* this step emits assignTask or noTask; Reply is what it emits
Replies == emitted' # <<>>
Reply == emitted'[1]
\* this step is the end of a request callback
CallbackEnds == CallbackRuns /\ suspended' = <<>>
\* this step appends tasks supplied by the generator
Refills == \E n \in GenOutputs : n # <<>> /\ GeneratorReturns(n)

\* the taskIds whose tracked status is pending
PendingKeys(st) == {e.key : e \in {x \in Range(st) : x.val.status = "pending"}}
\* task t has a type in caps and a tracked status of pending
Dispatchable(t, caps, pending) == t.taskType \in Range(caps) /\ t.taskId \in pending
\* queue q without its i-th element
Without(q, i) == SubSeq(q, 1, i - 1) \o SubSeq(q, i + 1, Len(q))

\* C1: No double assignment.  An entry sent by assignTask leaves the queue in
\* the same step, so no later request can be handed it; and when the request
\* callback of an eligible worker ends while the one matching task is
\* installed on another connected worker (no dispatchable task is queued for
\* the requester and the generator supplies none), the requester is answered
\* with noTask.
C1_NoDoubleAssignment ==
    [][ /\ (Replies /\ Reply.ev = "assignTask") =>
              \E new \in GenOutputs : \E i \in DOMAIN (tasks \o new) :
                  /\ (tasks \o new)[i] = Reply.task
                  /\ tasks' = Without(tasks \o new, i)
        /\ ( /\ CallbackEnds
             /\ Deciding.worker.isReady
             /\ \E e \in Range(taskStatuses) :
                   /\ e.val.status = "installed"
                   /\ e.val.assignedTo \in DOMAIN workers \ {Deciding.socket}
                   /\ e.val.task.taskType \in Range(Deciding.worker.taskTypes)
             /\ \A i \in DOMAIN tasks :
                   ~Dispatchable(tasks[i], Deciding.worker.taskTypes, PendingKeys(taskStatuses))
             /\ ~Refills )
           => /\ Replies
              /\ Reply.to = Deciding.socket
              /\ Reply.ev = "noTask"
      ]_vars

\* C2: Re-queue on disconnect.  A task re-queued by a disconnect (queued, its
\* TaskStatus entry cleared) is available again: a request of an eligible
\* worker decided while such a task of a matching type is queued is answered
\* with assignTask.
C2_RequeueOnDisconnect ==
    [][ ( /\ Replies
          /\ suspended = <<>>
          /\ ~NotEligible(Head(train))
          /\ \E i \in DOMAIN tasks :
                /\ tasks[i].taskType \in Range(workers[Head(train)].taskTypes)
                /\ ~MapHas(taskStatuses, KeyOf(tasks[i])) )
        => Reply.ev = "assignTask"
      ]_vars

\* C3: Re-queue on install failure.  A dispatched task pushed back after
\* installationStatus{failure} (queued, status failed) is eligible for
\* reassignment: a request of an eligible worker decided while such a task of
\* a matching type is queued is answered with assignTask.
C3_RequeueOnInstallFailure ==
    [][ ( /\ Replies
          /\ suspended = <<>>
          /\ ~NotEligible(Head(train))
          /\ \E i \in DOMAIN tasks :
                /\ tasks[i].taskType \in Range(workers[Head(train)].taskTypes)
                /\ StatusOf(taskStatuses, KeyOf(tasks[i])) = "failed"
                /\ AssigneeOf(taskStatuses, KeyOf(tasks[i])) \in Sockets )
        => Reply.ev = "assignTask"
      ]_vars

\* C4: Idempotent result delivery.  The list passed to onResult never holds a
\* result whose taskId was already marked handled before the invocation.
C4_IdempotentResultDelivery ==
    [][ (onResultArgs' # <<>>) =>
           \A x \in Range(onResultArgs'[1]) : StrKey(x.taskId) \notin taskStatusHandled
      ]_vars

\* C5: Capability matching.  The task sent by assignTask goes to the
\* requesting worker and has a taskType that is in that worker's capability
\* set when the decision is made.
C5_CapabilityMatching ==
    [][ (Replies /\ Reply.ev = "assignTask") =>
           /\ Reply.to = Deciding.socket
           /\ Reply.task.taskType \in Range(Deciding.worker.taskTypes)
      ]_vars

\* a task was just sent to a connected worker while a task of a type outside
\* that worker's capabilities stays queued
C5_Witness ==
    /\ emitted # <<>>
    /\ emitted[1].ev = "assignTask"
    /\ emitted[1].to \in DOMAIN workers
    /\ emitted[1].task.taskType \in Range(workers[emitted[1].to].taskTypes)
    /\ \E i \in DOMAIN tasks :
          tasks[i].taskType \notin Range(workers[emitted[1].to].taskTypes)

\* C6: FIFO among eligible tasks.  A decision for an eligible worker
\* dispatches the earliest queued task whose type is in the worker's
\* capabilities and whose tracked status is pending (noTask only when there is
\* none); the other queued tasks stay, in their order.
C6_FifoAmongEligible ==
    [][ Replies =>
           \E new \in GenOutputs :
              LET q == tasks \o new
                  pending == PendingKeys(taskStatuses) \cup {t.taskId : t \in Range(new)}
                  caps == Deciding.worker.taskTypes
              IN  /\ suspended = <<>> => new = <<>>
                  /\ \/ /\ Reply.ev = "assignTask"
                        /\ \E i \in DOMAIN q :
                              /\ Reply.task = q[i]
                              /\ Dispatchable(q[i], caps, pending)
                              /\ \A j \in 1..(i - 1) : ~Dispatchable(q[j], caps, pending)
                              /\ tasks' = Without(q, i)
                     \/ /\ Reply.ev = "noTask"
                        /\ tasks' = q
                        /\ \/ suspended = <<>> /\ NotEligible(Head(train))
                           \/ \A i \in DOMAIN q : ~Dispatchable(q[i], caps, pending)
      ]_vars

\* A (t1) was just handed out while B (t2), enqueued behind it, is still
\* queued and dispatchable to the same worker
C6_Witness ==
    /\ emitted # <<>>
    /\ emitted[1].ev = "assignTask"
    /\ emitted[1].task.taskId = "t1"
    /\ emitted[1].to \in DOMAIN workers
    /\ \E i \in DOMAIN tasks :
          /\ tasks[i].taskId = "t2"
          /\ Dispatchable(tasks[i], workers[emitted[1].to].taskTypes,
                          PendingKeys(taskStatuses))

\* C7: Generator failure is contained.  When taskGenerator throws, the
\* requesting worker is answered with noTask, the queue and the status table
\* are unchanged, and the requests chained behind it, and later ones, are still
\* processed.
C7_GeneratorFailureContained ==
    [][ GeneratorThrows =>
           /\ Replies
           /\ Reply.to = suspended[1].socket
           /\ Reply.ev = "noTask"
           /\ tasks' = tasks
           /\ taskStatuses' = taskStatuses
           /\ train' = train
           /\ ~rejected'
      ]_vars

\* C8: Empty-queue generator refill.  With an empty queue, a generator that
\* returns [C] with C's type in the requesting worker's capabilities gets the
\* worker assignTask with C, and C becomes installed, assigned to that worker;
\* with no generator configured or an empty list returned the worker gets
\* noTask.
C8_GeneratorRefill ==
    [][ /\ \A c \in DynamicTask :
              ( /\ tasks = <<>>
                /\ GeneratorReturns(<<c>>)
                /\ c.taskType \in Range(suspended[1].worker.taskTypes) )
              => /\ Replies
                 /\ Reply.to = suspended[1].socket
                 /\ Reply.ev = "assignTask"
                 /\ Reply.task = c
                 /\ StatusOf(taskStatuses', KeyOf(c)) = "installed"
                 /\ AssigneeOf(taskStatuses', KeyOf(c)) = suspended[1].socket
        /\ ( /\ tasks = <<>>
             /\ \/ GeneratorReturns(<<>>)
                \/ ProcessNext /\ ~taskGenerator /\ ~NotEligible(Head(train)) )
           => /\ Replies
              /\ Reply.to = Deciding.socket
              /\ Reply.ev = "noTask"
      ]_vars

\* the task the generator supplied on an empty queue was just sent to the
\* worker that asked and is installed on it
C8_Witness ==
    /\ emitted # <<>>
    /\ emitted[1].goosed
    /\ emitted[1].ev = "assignTask"
    /\ tasks = <<>>
    /\ StatusOf(taskStatuses, KeyOf(emitted[1].task)) = "installed"
    /\ AssigneeOf(taskStatuses, KeyOf(emitted[1].task)) = emitted[1].to

\* C9: Queue/status invariant.  Every task in the pending queue has a tracked
\* TaskStatus whose status is pending.
C9_QueuedIsPending ==
    \A i \in DOMAIN tasks : StatusOf(taskStatuses, KeyOf(tasks[i])) = "pending"

\* the edges of the task lifecycle state machine
LifecycleEdges == {<<"pending", "installed">>, <<"installed", "completed">>,
                   <<"installed", "failed">>, <<"failed", "pending">>}

\* C10: Task lifecycle state machine.  Under worker events (steps that do not
\* enqueue or refill), the status of a tracked taskId changes only along
\* pending -> installed, installed -> completed, installed -> failed and
\* failed -> pending.
C10_Lifecycle ==
    [][ (~(\E t \in DynamicTask : Enqueue(t)) /\ ~Refills)
        => \A k \in MapKeys(taskStatuses) \cap MapKeys(taskStatuses') :
              \/ StatusOf(taskStatuses', k) = StatusOf(taskStatuses, k)
              \/ <<StatusOf(taskStatuses, k), StatusOf(taskStatuses', k)>> \in LifecycleEdges
      ]_vars

\* C11: End-to-end scenario.  With the task queued alone and pending, the
\* request of a ready worker that registered its type is answered with
\* assignTask carrying that task; installationStatus{success} on the installed
\* task leaves it installed; the step of a taskCompleted invokes onResult
\* exactly once, with the one-element list of that result, and is the step
\* that sets the task's status to completed.
C11_EndToEnd ==
    [][ /\ ( /\ train # <<>>
             /\ suspended = <<>>
             /\ Len(tasks) = 1
             /\ ~NotEligible(Head(train))
             /\ StatusOf(taskStatuses, tasks[1].taskId) = "pending"
             /\ tasks[1].taskType \in Range(workers[Head(train)].taskTypes)
             /\ ProcessNext )
           => /\ Replies
              /\ Reply.to = Head(train)
              /\ Reply.ev = "assignTask"
              /\ Reply.task = tasks[1]
        /\ (taskStatuses' # taskStatuses) =>
              \A id \in ReportIds :
                 ( /\ StatusOf(taskStatuses, id) = "installed"
                   /\ StatusOf(taskStatuses', id) # "installed" )
                 => ~(\E s \in Sockets : InstallationStatus(s, id, "success"))
        /\ (onResultArgs' # <<>>) =>
              /\ Len(onResultArgs') = 1
              /\ Len(onResultArgs'[1]) = 1
              /\ onResultArgs'[1][1] \in TaskResult
              /\ MapHas(taskStatuses, onResultArgs'[1][1].taskId)
                 => StatusOf(taskStatuses', onResultArgs'[1][1].taskId) = "completed"
        /\ (taskStatuses' # taskStatuses) =>
              \A k \in MapKeys(taskStatuses) :
                 ( /\ StatusOf(taskStatuses, k) # "completed"
                   /\ StatusOf(taskStatuses', k) = "completed" )
                 => /\ Len(onResultArgs') = 1
                    /\ Len(onResultArgs'[1]) = 1
                    /\ onResultArgs'[1][1].taskId = k
      ]_vars

\* the scenario's last step was just taken: the task that was dispatched to a
\* worker is completed and onResult got the one-element list of its result
C11_Witness ==
    /\ onResultArgs = << <<[taskId |-> "t1", result |-> "ok"]>> >>
    /\ StatusOf(taskStatuses, "t1") = "completed"
    /\ AssigneeOf(taskStatuses, "t1") \in DOMAIN workers
    /\ workers[AssigneeOf(taskStatuses, "t1")].isReady

\* C12: Eligibility gate.  assignTask is never sent to a worker that has no
\* registry record, is not ready or has an empty capability set; the request
\* callback of such a worker answers noTask and leaves the queue and the
\* status table unchanged.
C12_EligibilityGate ==
    [][ /\ (Replies /\ Reply.ev = "assignTask") => ~NotEligible(Reply.to)
        /\ (ProcessNext /\ NotEligible(Head(train)))
           => /\ Replies
              /\ Reply.to = Head(train)
              /\ Reply.ev = "noTask"
              /\ tasks' = tasks
              /\ taskStatuses' = taskStatuses
      ]_vars

\* socket s sent requestTask and its assignment decision is not made yet
Undecided(s) ==
    \/ s \in Range(train)
    \/ suspended # <<>> /\ suspended[1].socket = s

\* C13: Per-connection ordering.  No registerCapabilities, notifyReady,
\* installationStatus, taskCompleted or disconnect of a connection takes
\* effect while a requestTask that arrived earlier from that connection is
\* still undecided.
C13_PerConnectionOrdering ==
    [][ \A s \in Sockets :
           ( \/ \E c \in CapLists(s) : RegisterCapabilities(s, c)
             \/ \E c \in CapLists(s) : NotifyReady(s, c)
             \/ \E id \in ReportIds, st \in {"success", "failure"} :
                   InstallationStatus(s, id, st)
             \/ \E d \in TaskResult, thrown \in BOOLEAN : TaskCompleted(s, d, thrown)
             \/ Disconnect(s) )
           => ~Undecided(s)
      ]_vars

(* ---------------------- EnhancedWorkerClient -------------------------- *)
\* the i-th in-flight callback ends in this step
EndsCallback(i) == i \in DOMAIN inFlight /\ inFlight' = Ended(inFlight, i)
\* positions in list out of the events named ev
Positions(out, ev) == {k \in DOMAIN out : out[k].ev = ev}
\* list out holds an installationStatus with status failure
ReportsFailure(out) ==
    \E k \in Positions(out, "installationStatus") : out[k].data.status = "failure"

C16_SetupFailurePath ==
    [][ /\ \A i \in DOMAIN inFlight :
              (inFlight[i].stage = "setup" /\ SetupRejects(i))
              => /\ Len(sent') >= 2
                 /\ sent'[1] = [ev |-> "installationStatus",
                                data |-> [taskId |-> IdOrNA(inFlight[i].task),
                                          status |-> "failure", error |-> SetupError]]
                 /\ sent'[2] = [ev |-> "taskCompleted",
                                data |-> [taskId |-> IdOrNA(inFlight[i].task),
                                          result |-> [error |-> SetupError]]]
                 /\ EndsCallback(i)
        /\ \A j \in DOMAIN inFlight' :
              (inFlight'[j].stage = "execute" /\ inFlight' # inFlight)
              => /\ j \in DOMAIN inFlight
                 /\ inFlight[j].stage = "setup"
                 /\ sent' = << [ev |-> "installationStatus",
                                data |-> [taskId |-> inFlight[j].task.taskId,
                                          status |-> "success"]] >>
      ]_vars

\* a failed setup was just reported and no callback is in flight
C16_Witness ==
    /\ inFlight = <<>>
    /\ Len(sent) >= 2
    /\ \E t \in AssignedTasks :
          /\ sent[1] = EmitInstallationFailure(t, SetupError)
          /\ sent[2] = EmitTaskCompleted(t, [error |-> SetupError])

\* C17: Setup-success path.  A successful setup is reported with
\* installationStatus{success}; once the callback is in the execute phase it
\* ends by emitting taskCompleted with the execution result, and never emits
\* installationStatus{failure}.
C17_SetupSuccessPath ==
    [][ /\ \A i \in DOMAIN inFlight :
              (inFlight[i].stage = "setup" /\ SetupResolves(i))
              => sent' = << [ev |-> "installationStatus",
                             data |-> [taskId |-> inFlight[i].task.taskId,
                                       status |-> "success"]] >>
        /\ \A i \in DOMAIN inFlight :
              (inFlight[i].stage = "execute" /\ EndsCallback(i))
              => /\ ~ReportsFailure(sent')
                 /\ \E r \in ExecutionResults :
                       sent'[1] = [ev |-> "taskCompleted",
                                   data |-> [taskId |-> IdOrNA(inFlight[i].task),
                                             result |-> r]]
      ]_vars

C19_WorkerSerialization ==
    [][ /\ Len(inFlight') <= 1
        /\ (Len(inFlight') > Len(inFlight)) => inFlight = <<>>
      ]_vars

\* a second assignTask has arrived while the first task is being set up or run
C19_Witness ==
    /\ inFlight # <<>>
    /\ chained # <<>>
    /\ Head(chained).kind = "assignTask"

\* C20: Connection-error policy (the advanced worker's half).  The
\* EnhancedWorkerClient never exits because of a connection error.
C20_ConnectionErrorPolicy == started # "exited"

(* ------------------------- basic protocol ----------------------------- *)
\* this step is the distributor's requestTasks handler for worker w
HandlesRequestTasks(w) == Arrives(w, "requestTasks") /\ outbox' = Taken(w)
\* the last event emitted to worker w
LastTo(box, w) == box[w][Len(box[w])]

BatchDone(w) == Len(processing'[w]) < Len(processing[w]) /\ phase'[w] # "rejected"
\* this step is the noMoreTasks handler of worker w
HandlesNoMoreTasks(w) == Received(w, "noMoreTasks") /\ inbox'[w] = Tail(inbox[w])

Disconnects(s) == conn[s] = "connected" /\ conn'[s] = "gone"
\* the positions of the TaskStatus entries assigned to s and not completed
Orphans(st, s) ==
    {i \in DOMAIN st : st[i].val.assignedTo = s /\ st[i].val.status # "completed"}
\* the number of entries of queue q equal to task t
Count(q, t) == Cardinality({i \in DOMAIN q : q[i] = t})

\* C23: Disconnect handler effect.  The disconnect handler of W deletes W's
\* registry record and leaves every other record as it was.  The queue keeps
\* its entries in place and gets, at its tail, the stored task of every
\* TaskStatus that was assigned to W and not completed, once per such entry;
\* those entries leave the status table, and all other entries (completed,
\* assigned to other workers, unassigned) stay, unchanged and in order.
C23_DisconnectEffect ==
    [][ \A s \in Sockets : Disconnects(s) =>
          LET gone == Orphans(taskStatuses, s)
              kept == SelectSeq(taskStatuses,
                                LAMBDA e : ~(e.val.assignedTo = s /\ e.val.status # "completed"))
              tail == SubSeq(tasks', Len(tasks) + 1, Len(tasks'))
          IN  /\ DOMAIN workers' = DOMAIN workers \ {s}
              /\ \A k \in DOMAIN workers' : workers'[k] = workers[k]
              /\ Len(tasks') = Len(tasks) + Cardinality(gone)
              /\ SubSeq(tasks', 1, Len(tasks)) = tasks
              /\ \A i \in gone :
                    Count(tail, taskStatuses[i].val.task) =
                       Cardinality({j \in gone : taskStatuses[j].val.task =
                                                  taskStatuses[i].val.task})
              /\ taskStatuses' = kept
      ]_vars
\* after a disconnect: a task of the lost worker is queued again and no longer
\* tracked, while a task it had completed is still tracked
C23_Witness ==
    \E s \in Sockets :
        /\ conn[s] = "gone"
        /\ \E e \in Range(taskStatuses) :
              e.val.assignedTo = s /\ e.val.status = "completed"
        /\ \E i \in DOMAIN tasks : ~MapHas(taskStatuses, tasks[i].taskId)

\* status table st with the status field of key k replaced by status
Restated(st, k, status) ==
    [i \in DOMAIN st |->
        IF st[i].key = k
        THEN [key |-> k, val |-> [task |-> st[i].val.task,
                                  assignedTo |-> st[i].val.assignedTo,
                                  status |-> status]]
        ELSE st[i]]

\* C24: installationStatus effect.  In every reachable state, for every
\* reported taskId and status: if the taskId is tracked, a success report
\* leaves the status installed and the queue unchanged, and a failure report
\* leaves the status failed and the queue extended at its tail by the task
\* stored in the TaskStatus; in both cases the entry keeps its task and
\* assignee and every other entry is unchanged.  If the taskId is untracked,
\* neither the queue nor the status table changes.
C24_InstallationStatusEffect ==
    \A id \in ReportIds, status \in {"success", "failure"} :
        LET after == InstallationOutcome(tasks, taskStatuses, id, status)
        IN  IF id \notin MapKeys(taskStatuses)
            THEN after.tasks = tasks /\ after.taskStatuses = taskStatuses
            ELSE IF status = "success"
            THEN /\ after.tasks = tasks
                 /\ after.taskStatuses = Restated(taskStatuses, id, "installed")
            ELSE /\ after.tasks = tasks \o <<MapGet(taskStatuses, id).task>>
                 /\ after.taskStatuses = Restated(taskStatuses, id, "failed")
\* a failed task of a worker is back at the queue tail, behind another entry,
\* while another task is installed
C24_Witness ==
    /\ Len(tasks) = 2
    /\ \E e \in Range(taskStatuses) :
          /\ e.val.status = "failed"
          /\ e.val.assignedTo \in Sockets
          /\ tasks[2] = e.val.task

\* TaskStatus entry e is installed on a worker that is connected
Held(e) ==
    /\ e.val.status = "installed"
    /\ e.val.assignedTo \in Sockets
    /\ conn[e.val.assignedTo] = "connected"
\* this step is a worker report that names taskId k
ReportsOn(k) ==
    \/ onResultArgs' # <<>> /\ \E i \in DOMAIN onResultArgs'[1] : onResultArgs'[1][i].taskId = k
    \/ \E s \in Sockets, status \in {"success", "failure"} : InstallationStatus(s, k, status)
\* this step enqueues, or appends from the generator, a task with taskId k
Supplies(k) ==
    \/ \E t \in DynamicTask : t.taskId = k /\ Enqueue(t)
    \/ \E n \in GenOutputs : (\E i \in DOMAIN n : n[i].taskId = k) /\ GeneratorReturns(n)

\* C25: Optimistic dispatch.  The step that emits assignTask takes the
\* task out of the queue and leaves its TaskStatus installed with assignedTo
\* the requester.  From then on, while that worker stays connected, the entry
\* stays installed and assigned to it, and no assignTask for that taskId goes
\* to another worker, through every step that is neither a report naming the
\* taskId nor a new supply of the taskId by a producer or the generator: no
\* timer or other request takes the task back.
C25_OptimisticDispatch ==
    [][ /\ (Replies /\ Reply.ev = "assignTask") =>
              /\ MapHas(taskStatuses', Reply.task.taskId)
              /\ MapGet(taskStatuses', Reply.task.taskId) =
                    [task |-> Reply.task, assignedTo |-> Reply.to, status |-> "installed"]
              /\ \E new \in GenOutputs :
                    /\ Len(tasks') = Len(tasks \o new) - 1
                    /\ Count(tasks', Reply.task) = Count(tasks \o new, Reply.task) - 1
        /\ \A e \in Range(taskStatuses) :
              ( /\ Held(e)
                /\ conn'[e.val.assignedTo] = "connected"
                /\ \/ e \notin Range(taskStatuses')
                   \/ /\ Replies /\ Reply.ev = "assignTask"
                      /\ Reply.task.taskId = e.key )
              => (ReportsOn(e.key) \/ Supplies(e.key))
      ]_vars
\* a task is installed on a connected worker that is not known to have
\* reported, and another connected, ready worker that can run it has just
\* been answered noTask
C25_Witness ==
    \E e \in Range(taskStatuses) :
        /\ Held(e)
        /\ emitted # <<>>
        /\ emitted[1].ev = "noTask"
        /\ emitted[1].to # e.val.assignedTo
        /\ emitted[1].to \in DOMAIN workers
        /\ workers[emitted[1].to].isReady
        /\ e.val.task.taskType \in Range(workers[emitted[1].to].taskTypes)
        /\ taskStatusHandled = {}

\* C26: Unconditional result application.  The step of a taskCompleted
\* report, the one step that invokes onResult, invokes it once, with the one
\* reported result.  If the reported taskId is tracked, the step sets
\* its status to completed whatever the status and the assignee were, the
\* entry keeping its task and assignee; if it is untracked, the status table
\* is unchanged.  The step leaves the queue, the registry and the request
\* chain alone, and no handler ends in a rejection, also when the report is
\* stale or repeated or onResult throws.
C26_UnconditionalResult ==
    [][ (onResultArgs' # <<>>) =>
          /\ Len(onResultArgs') = 1
          /\ Len(onResultArgs'[1]) = 1
          /\ onResultArgs'[1][1] \in TaskResult
          /\ LET id == onResultArgs'[1][1].taskId
             IN  taskStatuses' = IF id \in MapKeys(taskStatuses)
                                 THEN Restated(taskStatuses, id, "completed")
                                 ELSE taskStatuses
          /\ rejected' = rejected
          /\ unhandled' = {}
          /\ emitted' = <<>>
          /\ UNCHANGED <<tasks, workers, conn, train, suspended>>
      ]_vars
\* a result was just forwarded for a task that was never dispatched: it is
\* completed while still queued and unassigned
C26_Witness ==
    /\ onResultArgs # <<>>
    /\ \E i \in DOMAIN tasks :
          /\ tasks[i].taskId = onResultArgs[1][1].taskId
          /\ StatusOf(taskStatuses, tasks[i].taskId) = "completed"
          /\ AssigneeOf(taskStatuses, tasks[i].taskId) = ""

(* ------------------------- enhanced worker ---------------------------- *)
\* this step is the noTask handler: it arms a backoff timer
ArmsTimer == timers' > timers
\* this step is the callback of a backoff timer
BackoffElapses == timers' < timers

\* C27: noTask backoff.  The noTask handler emits nothing; it only arms the
\* backoff timer.  When the timer fires the worker emits registerCapabilities
\* and then notifyReady, both with its task-type list, and nothing else; with
\* an empty task-type list it emits nothing.  Neither step emits requestTask
\* or adds a request that waits for an answer.
C27_NoTaskBackoff ==
    [][ /\ ArmsTimer => (sent' = <<>> /\ unanswered' = unanswered - 1)
        /\ BackoffElapses =>
              /\ Len(sent') = 2
              /\ sent'[1] = [ev |-> "registerCapabilities",
                             data |-> [taskTypes |-> OwnTaskTypes]]
              /\ sent'[2] = [ev |-> "notifyReady", data |-> [taskTypes |-> OwnTaskTypes]]
              /\ unanswered' = unanswered
              /\ TimerCallback(<<>>) = <<>>
        /\ (ArmsTimer \/ BackoffElapses) => Requests(sent') = 0
      ]_vars
\* the backoff timer has just fired: the worker is connected, has nothing in
\* flight or chained, no request is waiting for an answer, and the last thing
\* it emitted is notifyReady
C27_Witness ==
    /\ link = "up"
    /\ timers = 0
    /\ unanswered = 0
    /\ inFlight = <<>> /\ chained = <<>>
    /\ Len(sent) = 2
    /\ sent[2].ev = "notifyReady"

(* --------------------------- generator refill ------------------------- *)
\* this step invokes taskGenerator(): a request callback suspends on it
InvokesGenerator == suspended = <<>> /\ suspended' # <<>>
\* this step runs the head callback of promiseTrain from its start
StartsCallback == suspended = <<>> /\ train # <<>> /\ train' # train
\* this step resumes the suspended callback with the list the generator returned
ResumesCallback == suspended # <<>> /\ suspended' = <<>> /\ ~rejected'

C29_EnqueueTracking ==
    [][ \A t \in Producible : Enqueue(t) =>
          /\ tasks' = tasks \o <<t>>
          /\ IF t.taskId # ""
             THEN /\ MapKeys(taskStatuses') = MapKeys(taskStatuses) \cup {t.taskId}
                  /\ MapGet(taskStatuses', t.taskId) =
                        [task |-> t, assignedTo |-> "", status |-> "pending"]
                  /\ \A k \in MapKeys(taskStatuses) \ {t.taskId} :
                        MapGet(taskStatuses', k) = MapGet(taskStatuses, k)
             ELSE taskStatuses' = taskStatuses
      ]_vars

(* --------------------------- worker registry -------------------------- *)
\* registry w2 differs from registry w at most in the record of socket s
OnlyRecord(w, w2, s) ==
    /\ DOMAIN w2 \ {s} = DOMAIN w \ {s}
    /\ \A k \in DOMAIN w \ {s} : w2[k] = w[k]
\* array arr has no element twice
NoDuplicates(arr) == \A i, j \in DOMAIN arr : arr[i] = arr[j] => i = j

\* C30: Worker registry lifecycle.  A connection creates the socket's record
\* with an empty capability list and isReady false.  registerCapabilities
\* replaces the capability list of the socket's record and leaves isReady as
\* it was; notifyReady leaves in the list the old capabilities and the
\* reported ones, each reported one that was missing added once, and sets
\* isReady true; neither creates a record for a socket that has none, nor
\* touches another socket's record.  A record is removed only by its
\* socket's disconnect, and a ready record stays ready while it exists.
\* The first and the last sentence are stated on every step that changes the
\* registry; the outcome of the two handlers is stated, for every socket and
\* capability list, on the registry of every state in which a socket
\* connects or disconnects.
C30_RegistryLifecycle ==
    [][ /\ (workers' # workers) =>
              \A s \in Sockets :
                 /\ (conn[s] = "new" /\ conn'[s] = "connected") =>
                       /\ s \in DOMAIN workers'
                       /\ workers'[s] = [socketId |-> s, taskTypes |-> <<>>,
                                         isReady |-> FALSE]
                       /\ OnlyRecord(workers, workers', s)
                 /\ (s \in DOMAIN workers' /\ s \notin DOMAIN workers) =>
                       (conn[s] = "new" /\ conn'[s] = "connected")
                 /\ (s \in DOMAIN workers /\ s \notin DOMAIN workers') => conn'[s] = "gone"
                 /\ (s \in DOMAIN workers /\ s \in DOMAIN workers' /\ workers[s].isReady)
                       => workers'[s].isReady
        /\ (conn' # conn) =>
              \A s \in Sockets : \A c \in CapLists(s) :
                 LET reg == Registered(workers, s, c)
                     rdy == Readied(workers, s, c)
                 IN  IF s \notin DOMAIN workers
                     THEN reg = workers /\ rdy = workers
                     ELSE /\ OnlyRecord(workers, reg, s) /\ OnlyRecord(workers, rdy, s)
                          /\ reg[s] = [socketId |-> s, taskTypes |-> c,
                                       isReady |-> workers[s].isReady]
                          /\ rdy[s].isReady /\ rdy[s].socketId = s
                          /\ Range(rdy[s].taskTypes) =
                                Range(workers[s].taskTypes) \cup Range(c)
                          /\ Len(rdy[s].taskTypes) =
                                Len(workers[s].taskTypes)
                                + Cardinality(Range(c) \ Range(workers[s].taskTypes))
                          /\ SubSeq(rdy[s].taskTypes, 1, Len(workers[s].taskTypes)) =
                                workers[s].taskTypes
      ]_vars
\* one worker is ready with both its capabilities and none twice, the other
\* has a record, registered capabilities and is not ready, and a socket that
\* disconnected has no record
C30_Witness ==
    \E s, v \in Sockets :
        /\ s \in DOMAIN workers /\ v \in DOMAIN workers
        /\ workers[s].isReady
        /\ Len(workers[s].taskTypes) = 2 /\ NoDuplicates(workers[s].taskTypes)
        /\ ~workers[v].isReady
        /\ Len(workers[v].taskTypes) = 1
(* -------------------------------- C31 --------------------------------- *)
\* the step is the discovery timer of client c firing
TimerFired(c) == discoveryTimer[c] /\ ~discoveryTimer'[c]
\* the step delivers an 'up' event to client c
UpDelivered(c) == ups'[c] # ups[c]
Last(arr) == arr[Len(arr)]

\* C31: a worker given a coordinator address never browses and passes that
\* address to connectToMaster; a worker given none browses, and the first 'up'
\* event settles start-up on the address built from that responder, which no
\* later 'up' event and no timer changes; the timer firing after a responder
\* was found changes nothing but the timer, and the timer firing with no
\* responder ends the process (start-up fails).
C31_DiscoveryOutcome ==
    /\ [](\A c \in Clients :
            /\ ~Nullish(masterUrl[c]) =>
                  /\ browser[c] = "none" /\ ups[c] = <<>> /\ ~discoveryTimer[c]
                  /\ PositionOf(c) # "discovering"
                  /\ PositionOf(c) # "constructed" => url[c] = masterUrl[c]
            /\ Nullish(masterUrl[c]) =>
                  /\ found[c] <=> ups[c] # <<>>
                  /\ found[c] => url[c] = UrlOf(ups[c][1])
                  /\ ~found[c] => Nullish(url[c]))
    /\ [][\A c \in Clients :
            /\ (UpDelivered(c) /\ ~found[c]) =>
                  /\ PositionOf(c)' = "connecting"
                  /\ url'[c] = UrlOf(Last(ups'[c]))
            /\ (UpDelivered(c) /\ found[c]) =>
                  /\ url'[c] = url[c]
                  /\ PositionOf(c)' = PositionOf(c)
            /\ (TimerFired(c) /\ found[c]) =>
                  UNCHANGED <<url, started, phase, found, browser, ups, link, chained>>
            /\ (TimerFired(c) /\ ~found[c]) =>
                  /\ PositionOf(c)' \in {"exited", "failed"}
                  /\ Nullish(url'[c])]_vars

\* the enhanced worker, given no address, heard localhost first and another
\* host second, its timer has fired since, and it connected: the address is
\* the first responder's, with localhost written as 127.0.0.1; a basic worker
\* given an address awaits its connection; another failed on the timeout
C31_Witness ==
    /\ Nullish(masterUrl["enhanced"])
    /\ Len(ups["enhanced"]) = 2
    /\ ups["enhanced"][1].host = "localhost"
    /\ ups["enhanced"][2].host # "localhost"
    /\ ~discoveryTimer["enhanced"]
    /\ started = "started"
    /\ url["enhanced"] = Str(<<"http://", "127.0.0.1", ":", "3000">>)
    /\ masterUrl["b1"] = MasterAddress /\ phase["b1"] = "connecting"
    /\ Nullish(masterUrl["b2"]) /\ phase["b2"] = "failed" /\ ups["b2"] = <<>>

(* -------------------------------- C32 --------------------------------- *)
\* the hash of the task's file set
HashOf(task) == ComputeHash(GetHashableContent(task.files))
\* the last settled setup in the task's directory was of the same file set
\* and ended one of the given ways
LastWas(task, ways) ==
    /\ lastSetup[ProjectDir(task)] # <<>>
    /\ lastSetup[ProjectDir(task)][1].files = task.files
    /\ lastSetup[ProjectDir(task)][1].ended \in ways
\* the step runs `npm install` / skips install and build
Installs == execs' = <<"npm install">>
Skips == execs' = <<>> /\ settled' = "resolved" /\ setupCall' = <<>>

\* C32: a setup call installs (and, install succeeding, builds) exactly when
\* the hash of the task's file set differs from the hash recorded in its
\* working directory, and skips both otherwise; the recorded hash changes
\* only when a build has succeeded, and becomes the hash of that call; a call
\* for the file set whose last setup in that directory failed installs again,
\* and a call for the file set whose last setup there succeeded skips.
C32_SetupSkipByHash ==
    /\ [][\A task \in SetupTasks :
            SetupBegins(task) =>
                /\ Installs <=> HashOf(task) # PreviousHash(disk[ProjectDir(task)])
                /\ ~Installs => Skips
                /\ LastWas(task, {"failed"}) => Installs
                /\ LastWas(task, {"built", "skipped"}) => Skips]_vars
    /\ [][\A d \in ProjectDirs :
            PreviousHash(disk'[d]) # PreviousHash(disk[d]) =>
                /\ setupCall # <<>> /\ setupCall[1].awaits = "npm run build"
                /\ setupCall[1].projectDir = d
                /\ settled' = "resolved"
                /\ PreviousHash(disk'[d]) = setupCall[1].currentHash]_vars
    /\ [][(setupCall # <<>> /\ setupCall[1].awaits = "npm install" /\ settled' = "none")
            => execs' = <<"npm run build">>]_vars

(* -------------------------------- C33 --------------------------------- *)
\* C33: every TaskStatus whose status is installed names as assignedTo a
\* worker that is in the worker registry.
C33_InstalledImpliesLiveAssignee ==
    \A i \in DOMAIN taskStatuses :
        taskStatuses[i].val.status = "installed"
            => taskStatuses[i].val.assignedTo \in DOMAIN workers

(* -------------------------------- C34 --------------------------------- *)
\* C34: with every taskId supplied at most once, the pending queue holds at
\* most one entry per taskId.
C34_NoDuplicateQueueEntries ==
    \A i, j \in DOMAIN tasks : i # j => KeyOf(tasks[i]) # KeyOf(tasks[j])

(* -------------------------------- C35 --------------------------------- *)
\* C35: every tracked task whose status is pending is in the pending queue.
C35_PendingImpliesQueued ==
    \A i \in DOMAIN taskStatuses :
        taskStatuses[i].val.status = "pending"
            => \E j \in DOMAIN tasks : tasks[j] = taskStatuses[i].val.task

(* -------------------------------- C36 --------------------------------- *)
\* worker s is connected, ready and able to run tasks of t's type
Serves(s, t) ==
    /\ s \in DOMAIN workers
    /\ workers[s].isReady
    /\ Includes(workers[s].taskTypes, t.taskType)
\* t was enqueued and not dispatched yet
Enqueued(t) ==
    /\ \E j \in DOMAIN tasks : tasks[j] = t
    /\ StatusOf(taskStatuses, KeyOf(t)) = "pending"
\* the step just taken sent t by assignTask
Sent(t) == emitted # <<>> /\ emitted[1].ev = "assignTask" /\ emitted[1].task = t

\* C36: with every taskId supplied once and a generator that does not fail,
\* if some worker from some point on stays connected, ready and able to run
\* tasks of t's type, and its requestTask events keep being received, then
\* an enqueued task t is eventually sent by assignTask.
C36_AtLeastOnceDispatch ==
    \A t \in DynamicTask : \A s \in Sockets :
        ([]<><<RequestTask(s)>>_vars /\ <>[]Serves(s, t))
            => (Enqueued(t) ~> Sent(t))

(* -------------------------------- C37 --------------------------------- *)
\* the requests received and not answered yet, oldest last: the chained
\* callbacks and the one suspended at the generator
Unanswered == [i \in DOMAIN train |-> train[i]]
                 \o [i \in DOMAIN suspended |-> suspended[i].socket]
\* the step answers the request of socket s: one emission, to s, of
\* assignTask or of noTask
Answers(s) ==
    /\ Len(emitted') = 1
    /\ emitted'[1].to = s
    /\ emitted'[1].ev \in {"assignTask", "noTask"}

\* C37: with a generator that does not fail, a received requestTask is
\* answered by exactly one emission, assignTask or noTask, to the socket
\* that sent it: a callback that ends emits one reply to its own socket and
\* leaves the set of unanswered requests, a callback that suspends at the
\* generator emits nothing and stays unanswered, no other step emits
\* anything or drops a request, and every unanswered request is eventually
\* answered.
C37_ExactlyOneReply ==
    /\ [][/\ ((suspended # <<>> /\ suspended' = <<>>) =>
                (Answers(suspended[1].socket) /\ train' = train))
           /\ ((suspended = <<>> /\ train' # train /\ Len(train') < Len(train)) =>
                (/\ train' = Tail(train)
                 /\ \/ Answers(Head(train)) /\ suspended' = <<>>
                    \/ /\ emitted' = <<>>
                       /\ Len(suspended') = 1
                       /\ suspended'[1].socket = Head(train)))
           /\ (emitted' # <<>> =>
                (\/ suspended # <<>> /\ suspended' = <<>>
                 \/ /\ suspended = <<>> /\ suspended' = <<>>
                    /\ train # <<>> /\ train' = Tail(train)))
           /\ (Len(train') > Len(train) =>
                (\E s \in Sockets : train' = Append(train, s)))]_vars
    /\ \A s \in Sockets :
          (\E i \in DOMAIN Unanswered : Unanswered[i] = s)
              ~> (emitted # <<>> /\ emitted[1].to = s
                    /\ emitted[1].ev \in {"assignTask", "noTask"})

\* both kinds of reply after the generator was awaited: a worker asked on an
\* empty queue, the generator supplied a task, and the reply just sent to it
\* is that task
C37_Witness ==
    /\ emitted # <<>>
    /\ emitted[1].ev = "assignTask"
    /\ emitted[1].goosed
    /\ train # <<>>

(* -------------------------------- C38 --------------------------------- *)
\* the requests not decided yet in the order they arrived: the one whose
\* callback awaits the generator, then the chained ones
Arrival == [i \in DOMAIN suspended |-> suspended[i].socket]
              \o [i \in DOMAIN train |-> train[i]]
\* the step decides a request: it emits assignTask or noTask
Decides == emitted' # <<>> /\ emitted'[1].ev \in {"assignTask", "noTask"}

\* C38: requests are decided one at a time in arrival order across all
\* connections: a step that decides a request decides the oldest undecided
\* one and only that one, an arriving request goes behind every undecided
\* one, and while a callback is suspended at the generator the only decision
\* that can be made is the suspended request's; a generator failure decides
\* nothing and drops every undecided request.
C38_GlobalDecisionOrder ==
    [][/\ (Decides =>
            (/\ Arrival # <<>>
             /\ emitted'[1].to = Head(Arrival)
             /\ Arrival' = Tail(Arrival)))
       /\ (Arrival' # Arrival =>
            (\/ Decides
             \/ \E s \in Sockets : Arrival' = Append(Arrival, s)
             \/ rejected' /\ ~rejected /\ Arrival' = <<>>))
       /\ ((suspended # <<>> /\ Decides) =>
            (emitted'[1].to = suspended[1].socket /\ suspended' = <<>>))
       /\ ((suspended # <<>> /\ ~Decides) =>
            (\/ Len(suspended') = 1 /\ suspended'[1].socket = suspended[1].socket
             \/ rejected' /\ suspended' = <<>>))]_vars

\* worker w2 asked while the request of w1 awaited the generator, the
\* generator returned, w1 was answered and w2 is still waiting its turn
C38_Witness ==
    /\ emitted # <<>>
    /\ emitted[1].goosed
    /\ emitted[1].to = "w1"
    /\ train = <<"w2">>
    /\ suspended = <<>>

(* -------------------------------- C39 --------------------------------- *)
\* taskCompleted for id was received: with completions sent by the assigned
\* worker only, the status of id has been 'completed'
WasCompleted(id) == StrKey(id) \in taskStatusHandled
\* the step appends an entry with taskId id to the queue
Requeues(id) ==
    /\ Len(tasks') > Len(tasks)
    /\ \E i \in (Len(tasks) + 1)..Len(tasks') : KeyOf(tasks'[i]) = id
\* the step is the disconnect of the socket id is assigned to
AssigneeDisconnects(id) ==
    \E s \in Sockets :
        /\ AssigneeOf(taskStatuses, id) = s
        /\ conn[s] = "connected"
        /\ conn'[s] = "gone"

\* C39: with every taskId supplied at most once, once a task's status has
\* been completed no step emits assignTask for that taskId, whatever
\* requestTask, installationStatus and disconnect events follow, and the
\* disconnect of the worker that completed it puts no entry for it on the
\* queue.
C39_CompletedNotRedispatched ==
    [][\A id \in CompletedIds :
          WasCompleted(id) =>
             /\ ~(emitted' # <<>> /\ emitted'[1].ev = "assignTask"
                    /\ KeyOf(emitted'[1].task) = id)
             /\ ~(AssigneeDisconnects(id) /\ Requeues(id))]_vars

\* the part that concerns dispatch alone
C39_NoAssignAfterCompleted ==
    [][\A id \in CompletedIds :
          WasCompleted(id) =>
             ~(emitted' # <<>> /\ emitted'[1].ev = "assignTask"
                 /\ KeyOf(emitted'[1].task) = id)]_vars

(* -------------------------------- C40 --------------------------------- *)
\* the number of queue entries that have left the queue: entries are
\* numbered 1, 2, ... in the order getTasks and addTask supply them
Delivered == supplied - Len(distTasks)
DeliveredNext == supplied' - Len(distTasks')
\* the step emits provideTasks with batch b to worker w and to no one else
Provides(w, b) ==
    inbox' = [inbox EXCEPT ![w] = Append(@, ProvideTasks(b))]
\* the step emits a provideTasks event
ProvidesSome ==
    \E w \in BasicWorkers :
        /\ Len(inbox'[w]) > Len(inbox[w])
        /\ LastTo(inbox', w).ev = "provideTasks"

\* C40: the queue holds, in supply order, exactly the supplied entries that
\* were not delivered yet; a step that emits provideTasks emits one batch to
\* one worker, the batch is not empty and holds the entries that directly
\* follow the last entry delivered before, in queue order, and these are the
\* entries that leave the queue; no entry leaves the queue in any other
\* step.  So the batches are pairwise disjoint and, put one after the other
\* in emission order, they are the queue in supply order.
C40_DisjointBatches ==
    /\ [](distTasks = [i \in 1..Len(distTasks) |-> Delivered + i])
    /\ [][/\ (ProvidesSome =>
               (\E w \in BasicWorkers : \E k \in 1..batchSize :
                   /\ Provides(w, [i \in 1..k |-> Delivered + i])
                   /\ DeliveredNext = Delivered + k))
           /\ ((~ProvidesSome) => (DeliveredNext = Delivered))]_vars

\* both workers hold a batch, the later one starting where the earlier one
\* ended, and entries are still queued behind them
C40_Witness ==
    /\ distTasks # <<>>
    /\ inbox["b1"] # <<>> /\ LastTo(inbox, "b1").ev = "provideTasks"
    /\ inbox["b2"] # <<>> /\ LastTo(inbox, "b2").ev = "provideTasks"
    /\ LastTo(inbox, "b1").tasks \o LastTo(inbox, "b2").tasks \o distTasks
          = Fresh(Delivered - Len(LastTo(inbox, "b1").tasks)
                            - Len(LastTo(inbox, "b2").tasks),
                  Len(LastTo(inbox, "b1").tasks) + Len(LastTo(inbox, "b2").tasks)
                    + Len(distTasks))

====
